---- MODULE Spec2Model ----
(***************************************************************************)
(* A model of the deq-tanks skid: the FieldConfig descriptor constructor   *)
(* (config.py), the helpers convert_to_int and flatten, the field mapping  *)
(* pipeline of SalesForceRecords.extract_data_from_salesforce (helpers.py) *)
(* and the run over the four datasets of Skid.update (main.py).            *)
(*                                                                         *)
(* Python values are tagged records.  A Python str is a sequence of        *)
(* one-character strings, so that `"." in s`, s.split("."), int(s) and     *)
(* str.format are computed character by character as Python computes them. *)
(* A Python dict is a sequence of <<key, value>> pairs (insertion order).   *)
(* Table cells hold Python objects (object-dtype columns).                 *)
(***************************************************************************)
EXTENDS Integers, Sequences, FiniteSets, TLC

VARIABLES
    fc_args,        \* arguments of one FieldConfig(...) call
    fc_result,      \* its outcome: a descriptor or a raised exception
    fl_args,        \* arguments of one flatten(x, child_field) call
    fl_result,      \* its outcome
    ci_arg,         \* argument of one convert_to_int(s) call
    ci_result,      \* its outcome
    field_configs,  \* SalesForceRecords.field_configs
    where_clause,   \* SalesForceRecords.where_clause
    salesforce_api, \* SalesForceRecords.salesforce_api
    raw,            \* the table the extractor returns from get_records
    query,          \* the query string handed to the extractor
    df,             \* SalesForceRecords.df, the evolving table
    fields_to_drop, \* local list of parent columns to drop
    idx,            \* position of the derive loop in field_configs
    pc,             \* position inside extract_data_from_salesforce
    error,          \* the exception that ended the run, or NoError
    earlier,        \* outcome of an earlier call of the method on the object
    update_pc,      \* position inside Skid.update
    dataset,        \* the dataset Skid.update is working on
    frames,         \* facilities_sdf, releases_df, tanks_df, compartments_df
    counts,         \* facilities_count, releases_count, tanks_count, ...
    services,       \* what each hosted service holds
    messages,       \* the summaries printed or handed to the supervisor
    update_error,   \* the exception that left Skid.update, or NoError
    IS_LOCAL_DEV    \* config.IS_LOCAL_DEV

vars == <<fc_args, fc_result, fl_args, fl_result, ci_arg, ci_result,
          field_configs, where_clause, salesforce_api, raw, query, df,
          fields_to_drop, idx, pc, error, earlier, update_pc, dataset, frames,
          counts, services, messages, update_error, IS_LOCAL_DEV>>

-----------------------------------------------------------------------------
(* Bounds of the model *)

MaxFields == 2      \* longest descriptor set explored
MaxRows == 1        \* most rows in a raw table
MaxStrLen == 3      \* longest string handed to convert_to_int
MaxItems == 2       \* most items in a dict handed to flatten
MaxCells == 2       \* most source cells (rows times source columns) in a raw table

-----------------------------------------------------------------------------
(* Python values *)

None == [t |-> "none"]
PyStr(s) == [t |-> "str", v |-> s]
PyInt(n) == [t |-> "int", v |-> n]
PyDict(items) == [t |-> "dict", v |-> items]

IsNone(x) == x.t = "none"
IsStr(x) == x.t = "str"
IsInt(x) == x.t = "int"
IsDict(x) == x.t = "dict"

\* outcome of a call: a returned value or a raised exception
Return(v) == [raised |-> FALSE, val |-> v]
Raise(e, m) == [raised |-> TRUE, exc |-> e, msg |-> m]
Pending == [raised |-> FALSE]
NoError == [raised |-> FALSE]

\* a str (sequence of characters) as one TLA+ string, for messages
RECURSIVE Text(_)
Text(s) == IF s = <<>> THEN "" ELSE Head(s) \o Text(Tail(s))

\* x in s, for a character x and a str s
CharIn(c, s) == \E k \in 1..Len(s) : s[k] = c

\* s.split(sep) for a one-character separator: the list of parts
RECURSIVE Split(_, _)
Split(s, sep) ==
    IF ~CharIn(sep, s) THEN <<s>>
    ELSE LET k == CHOOSE j \in 1..Len(s) :
                      s[j] = sep /\ \A m \in 1..(j - 1) : s[m] # sep
         IN <<SubSeq(s, 1, k - 1)>> \o Split(SubSeq(s, k + 1, Len(s)), sep)

DigitChars == <<"0", "1", "2", "3", "4", "5", "6", "7", "8", "9">>
IsDigit(c) == \E d \in 1..10 : DigitChars[d] = c
DigitVal(c) == (CHOOSE d \in 1..10 : DigitChars[d] = c) - 1

\* str(n) for an int n
RECURSIVE NatToStr(_)
NatToStr(n) ==
    IF n < 10 THEN <<DigitChars[n + 1]>>
    ELSE NatToStr(n \div 10) \o <<DigitChars[(n % 10) + 1]>>
IntToStr(n) == IF n < 0 THEN <<"-">> \o NatToStr(-n) ELSE NatToStr(n)

\* dict access
HasKey(d, k) == \E j \in 1..Len(d.v) : d.v[j][1] = k
GetItem(d, k) == d.v[CHOOSE j \in 1..Len(d.v) : d.v[j][1] = k][2]

\* repr(x) and str(x); str of a str is the str itself, its repr is quoted
RECURSIVE Repr(_), ReprItems(_)
Repr(x) ==
    CASE IsNone(x) -> <<"N", "o", "n", "e">>
      [] IsStr(x) -> <<"'">> \o x.v \o <<"'">>
      [] IsInt(x) -> IntToStr(x.v)
      [] IsDict(x) -> <<"{">> \o ReprItems(x.v) \o <<"}">>
ReprItems(items) ==
    IF items = <<>> THEN <<>>
    ELSE <<"'">> \o items[1][1] \o <<"'", ":", " ">> \o Repr(items[1][2])
         \o (IF Len(items) > 1 THEN <<",", " ">> ELSE <<>>)
         \o ReprItems(Tail(items))
\* str(x) that writes a null as the empty string
Str_NoneIsEmpty(x) ==
    IF IsNone(x) THEN <<>> ELSE IF IsStr(x) THEN x.v ELSE Repr(x)

Str(x) == IF IsStr(x) THEN x.v ELSE Repr(x)

\* type(x) as printed in a message
TypeName(x) ==
    CASE IsNone(x) -> "<class 'NoneType'>"
      [] IsStr(x) -> "<class 'str'>"
      [] IsInt(x) -> "<class 'int'>"
      [] IsDict(x) -> "<class 'dict'>"

-----------------------------------------------------------------------------
(* config.FieldConfig *)

text == "text"
integer == "integer"
float == "float"
date == "date"
static == "static"
composite == "composite"

FieldTypes == {text, integer, date, static, composite, float}

\* FieldConfig.__init__ without its last check (flatten needs a dotted sf_field)
FieldConfig_NoFlattenCheck(agol_field, sf_field, alias, field_type, static_value, composite_format, flatten) ==
    IF field_type \notin FieldTypes
    THEN Raise("ValueError", "Invalid field type: " \o field_type)
    ELSE IF field_type = static /\ IsNone(static_value)
    THEN Raise("ValueError", "Field type 'static' must have a 'static_value'")
    ELSE IF field_type # static /\ ~IsNone(static_value)
    THEN Raise("ValueError", "Field type '{field_type}' cannot have a 'static_value'")
    ELSE IF field_type = composite /\ IsNone(composite_format)
    THEN Raise("ValueError", "Field type 'composite' must have a 'composite_format'")
    ELSE IF field_type # composite /\ ~IsNone(composite_format)
    THEN Raise("ValueError", "Field type '{field_type}' cannot have a 'composite_format'")
    ELSE Return([agol_field |-> agol_field, sf_field |-> sf_field,
                 alias |-> alias, field_type |-> field_type,
                 static_value |-> static_value,
                 composite_format |-> composite_format,
                 flatten |-> flatten])

\* FieldConfig.__init__: the checks in source order; the first that fails raises
FieldConfig(agol_field, sf_field, alias, field_type, static_value, composite_format, flatten) ==
    IF field_type \notin FieldTypes
    THEN Raise("ValueError", "Invalid field type: " \o field_type)
    ELSE IF field_type = static /\ IsNone(static_value)
    THEN Raise("ValueError", "Field type 'static' must have a 'static_value'")
    ELSE IF field_type # static /\ ~IsNone(static_value)
    THEN Raise("ValueError", "Field type '{field_type}' cannot have a 'static_value'")
    ELSE IF field_type = composite /\ IsNone(composite_format)
    THEN Raise("ValueError", "Field type 'composite' must have a 'composite_format'")
    ELSE IF field_type # composite /\ ~IsNone(composite_format)
    THEN Raise("ValueError", "Field type '{field_type}' cannot have a 'composite_format'")
    ELSE IF flatten /\ IsNone(sf_field)
    THEN Raise("TypeError", "argument of type 'NoneType' is not iterable")
    ELSE IF flatten /\ ~CharIn(".", sf_field.v)
    THEN Raise("ValueError", "Field '" \o Text(sf_field.v)
                                 \o "' cannot be flattened without a dot")
    ELSE Return([agol_field |-> agol_field, sf_field |-> sf_field,
                 alias |-> alias, field_type |-> field_type,
                 static_value |-> static_value,
                 composite_format |-> composite_format,
                 flatten |-> flatten])

-----------------------------------------------------------------------------
(* helpers.convert_to_int and the builtin int() it calls *)

IsSpace(c) == c = " "

RECURSIVE LStrip(_)
LStrip(s) == IF s # <<>> /\ IsSpace(Head(s)) THEN LStrip(Tail(s)) ELSE s
RECURSIVE RStrip(_)
RStrip(s) ==
    IF s # <<>> /\ IsSpace(s[Len(s)]) THEN RStrip(SubSeq(s, 1, Len(s) - 1)) ELSE s
Strip(s) == RStrip(LStrip(s))

\* value of a run of digits and single underscores, most significant first
RECURSIVE DigitsValue(_, _)
DigitsValue(s, acc) ==
    IF s = <<>> THEN acc
    ELSE IF Head(s) = "_" THEN DigitsValue(Tail(s), acc)
    ELSE DigitsValue(Tail(s), (10 * acc) + DigitVal(Head(s)))

\* a run of digits with single underscores between them
WellFormedDigits(body) ==
    /\ body # <<>>
    /\ IsDigit(body[1])
    /\ IsDigit(body[Len(body)])
    /\ \A k \in 1..Len(body) :
          \/ IsDigit(body[k])
          \/ /\ body[k] = "_"
             /\ k > 1 /\ k < Len(body)
             /\ IsDigit(body[k - 1]) /\ IsDigit(body[k + 1])

HasSign(t) == t # <<>> /\ Head(t) \in {"+", "-"}
Unsigned(t) == IF HasSign(t) THEN Tail(t) ELSE t
Signed(t, magnitude) == IF HasSign(t) /\ Head(t) = "-" THEN -magnitude ELSE magnitude

\* int of a str without surrounding whitespace: an optional sign, then digits
IntOfStripped(t) ==
    IF ~WellFormedDigits(Unsigned(t))
    THEN Raise("ValueError", "invalid literal for int() with base 10")
    ELSE Return(PyInt(Signed(t, DigitsValue(Unsigned(t), 0))))

\* int(s) for a str s: surrounding whitespace is ignored; anything but a
\* signed run of digits is a ValueError
IntOfStr(s) == IntOfStripped(Strip(s))

\* int(x) for any object x that is not None
IntOf(x) ==
    CASE IsInt(x) -> Return(x)
      [] IsStr(x) -> IntOfStr(x.v)
      [] OTHER -> Raise("TypeError", "int() argument must be a string, a "
                        \o "bytes-like object or a real number, not "
                        \o TypeName(x))

\* the `except ValueError: return -1` around int(s)
ExceptValueError(r) ==
    IF r.raised /\ r.exc = "ValueError" THEN Return(PyInt(-1)) ELSE r

convert_to_int(s) ==
    IF IsNone(s) THEN Return(None) ELSE ExceptValueError(IntOf(s))

-----------------------------------------------------------------------------
(* helpers.flatten *)

\* flatten that answers an empty string for a null parent
flatten_NoneIsEmpty(x, child_field) ==
    IF IsNone(x) THEN Return(PyStr(<<>>))
    ELSE IF ~IsDict(x)
    THEN Raise("ValueError", "Expected a dictionary, got " \o TypeName(x))
    ELSE IF ~HasKey(x, child_field)
    THEN Raise("ValueError", "Expected a child field '" \o Text(child_field)
                                 \o "', but not found in the dictionary")
    ELSE Return(GetItem(x, child_field))

\* flatten that answers None for a missing child key instead of raising
flatten_MissingChildIsNone(x, child_field) ==
    IF IsNone(x) THEN Return(None)
    ELSE IF ~IsDict(x)
    THEN Raise("ValueError", "Expected a dictionary, got " \o TypeName(x))
    ELSE IF ~HasKey(x, child_field) THEN Return(None)
    ELSE Return(GetItem(x, child_field))

flatten(x, child_field) ==
    IF IsNone(x) THEN Return(None)
    ELSE IF ~IsDict(x)
    THEN Raise("ValueError", "Expected a dictionary, got " \o TypeName(x))
    ELSE IF ~HasKey(x, child_field)
    THEN Raise("ValueError", "Expected a child field '" \o Text(child_field)
                                 \o "', but not found in the dictionary")
    ELSE Return(GetItem(x, child_field))

-----------------------------------------------------------------------------
(* Tables: a pandas DataFrame is its column names in order and its rows,   *)
(* each row a function from column name to cell.  Column names are unique. *)

HasCol(t, c) == \E k \in 1..Len(t.cols) : t.cols[k] = c
ColSet(t) == {t.cols[k] : k \in 1..Len(t.cols)}
NumRows(t) == Len(t.rows)

\* a drop that is not in place: the table stays as it was
DropColumns_NotInPlace(t, names) == t
\* df.drop(columns=names): the named columns leave, the others keep their order
DropColumns(t, names) ==
    LET keep(c) == c \notin names
        left == SelectSeq(t.cols, keep)
        leftSet == {left[k] : k \in 1..Len(left)}
    IN [cols |-> left,
        rows |-> [r \in 1..Len(t.rows) |-> [c \in leftSet |-> t.rows[r][c]]]]

\* a rename that adds the new names and leaves the old columns in the table
RenameColumns_KeepsOld(t, mapper) ==
    LET moved == SelectSeq(t.cols, LAMBDA c : c \in DOMAIN mapper)
        added == [k \in 1..Len(moved) |-> mapper[moved[k]]]
        old(n) == IF n \in ColSet(t) THEN n
                  ELSE CHOOSE c \in ColSet(t) : c \in DOMAIN mapper /\ mapper[c] = n
    IN [cols |-> t.cols \o added,
        rows |-> [r \in 1..Len(t.rows) |->
                     [n \in ColSet(t) \cup {added[k] : k \in 1..Len(added)} |->
                         t.rows[r][old(n)]]]]
\* df.rename(mapper, axis=1): every column the mapper names takes its new
\* name in place; the mapper is a function from old names to new names
RenameColumns(t, mapper) ==
    LET new(c) == IF c \in DOMAIN mapper THEN mapper[c] ELSE c
        old(n) == CHOOSE c \in ColSet(t) : new(c) = n
        renamed == [k \in 1..Len(t.cols) |-> new(t.cols[k])]
    IN [cols |-> renamed,
        rows |-> [r \in 1..Len(t.rows) |->
                     [n \in {renamed[k] : k \in 1..Len(renamed)} |-> t.rows[r][old(n)]]]]

\* an assignment that adds no column to a table without rows
SetColumn_OnlyWithRows(t, c, cells) ==
    [cols |-> IF HasCol(t, c) \/ t.rows = <<>> THEN t.cols ELSE Append(t.cols, c),
     rows |-> [r \in 1..Len(t.rows) |->
                  [n \in ColSet(t) \cup {c} |->
                      IF n = c THEN cells[r] ELSE t.rows[r][n]]]]
\* df[c] = cells: an existing column is overwritten where it stands, a new
\* one is appended as the last column
SetColumn(t, c, cells) ==
    [cols |-> IF HasCol(t, c) THEN t.cols ELSE Append(t.cols, c),
     rows |-> [r \in 1..Len(t.rows) |->
                  [n \in ColSet(t) \cup {c} |->
                      IF n = c THEN cells[r] ELSE t.rows[r][n]]]]

\* the first exception among the outcomes of a row-by-row apply, if any
AnyRaised(outs) == \E r \in 1..Len(outs) : outs[r].raised
FirstRaised(outs) ==
    outs[CHOOSE r \in 1..Len(outs) :
            outs[r].raised /\ \A q \in 1..(r - 1) : ~outs[q].raised]
Values(outs) == [r \in 1..Len(outs) |-> outs[r].val]

\* position of the first "}" of a template
FirstClose(template) ==
    CHOOSE k \in 2..Len(template) :
        template[k] = "}" /\ \A m \in 2..(k - 1) : template[m] # "}"

\* format that writes nothing for a name the row does not have
RECURSIVE Format_UnknownIsEmpty(_, _)
Format_UnknownIsEmpty(template, row) ==
    IF template = <<>> THEN Return(<<>>)
    ELSE IF Head(template) # "{"
    THEN Return(<<Head(template)>> \o Format_UnknownIsEmpty(Tail(template), row).val)
    ELSE Return((IF SubSeq(template, 2, FirstClose(template) - 1) \in DOMAIN row
                 THEN Str(row[SubSeq(template, 2, FirstClose(template) - 1)])
                 ELSE <<>>)
                \o Format_UnknownIsEmpty(
                       SubSeq(template, FirstClose(template) + 1, Len(template)),
                       row).val)

\* template.format(**row): each {name} becomes str of the row's cell of that
\* name, everything else is copied; an unknown name is a KeyError
\* chars in front of what the rest of a template formats to
Prepend(chars, rest) == IF rest.raised THEN rest ELSE Return(chars \o rest.val)

\* position of the first "}" of a template that starts with "{"
CloseOf(template) ==
    CHOOSE k \in 2..Len(template) :
        template[k] = "}" /\ \A m \in 2..(k - 1) : template[m] # "}"

RECURSIVE Format(_, _)
Format(template, row) ==
    IF template = <<>> THEN Return(<<>>)
    ELSE IF Head(template) # "{"
    THEN Prepend(<<Head(template)>>, Format(Tail(template), row))
    ELSE IF SubSeq(template, 2, CloseOf(template) - 1) \notin DOMAIN row
    THEN Raise("KeyError", Text(SubSeq(template, 2, CloseOf(template) - 1)))
    ELSE Prepend(Str(row[SubSeq(template, 2, CloseOf(template) - 1)]),
                 Format(SubSeq(template, CloseOf(template) + 1, Len(template)),
                        row))

\* the str a format call returns, an error of the call dropped
Wrap_DropsError(out) == Return(PyStr(IF out.raised THEN <<>> ELSE out.val))
\* the str a format call returns, as a cell
Wrap(out) == IF out.raised THEN out ELSE Return(PyStr(out.val))

-----------------------------------------------------------------------------
(* SalesForceRecords *)

S_attributes == <<"a", "t", "t", "r", "i", "b", "u", "t", "e", "s">>

\* ",".join(parts)
RECURSIVE Join(_, _)
Join(parts, sep) ==
    IF parts = <<>> THEN <<>>
    ELSE IF Len(parts) = 1 THEN parts[1]
    ELSE parts[1] \o sep \o Join(Tail(parts), sep)

\* SalesForceRecords._build_columns_string
RECURSIVE SfFields(_)
SfFields(configs) ==
    IF configs = <<>> THEN <<>>
    ELSE (IF IsNone(Head(configs).sf_field) THEN <<>>
          ELSE <<Head(configs).sf_field.v>>) \o SfFields(Tail(configs))
build_columns_string(configs) == Join(SfFields(configs), <<",">>)

\* a query that leaves out an empty where clause
BuildQuery_EmptyFilterDropped(configs, api, where) ==
    LET base == <<"S", "E", "L", "E", "C", "T", " ">>
                    \o build_columns_string(configs)
                    \o <<" ", "f", "r", "o", "m", " ">> \o api
    IN IF ~IsNone(where) /\ where.v # <<>>
       THEN base \o <<" ", "W", "H", "E", "R", "E", " ">> \o where.v
       ELSE base
\* the query of extract_data_from_salesforce
BuildQuery(configs, api, where) ==
    LET base == <<"S", "E", "L", "E", "C", "T", " ">>
                    \o build_columns_string(configs)
                    \o <<" ", "f", "r", "o", "m", " ">> \o api
    IN IF ~IsNone(where)
       THEN base \o <<" ", "W", "H", "E", "R", "E", " ">> \o where.v
       ELSE base

\* the comprehension {c.sf_field: c.agol_field ...}: a later descriptor with
\* the same sf_field replaces an earlier one
field_mappings(configs) ==
    LET named == {k \in 1..Len(configs) : ~IsNone(configs[k].sf_field)}
        last(f) == CHOOSE k \in named :
                       configs[k].sf_field.v = f
                       /\ \A m \in named : configs[m].sf_field.v = f => m <= k
    IN [f \in {configs[k].sf_field.v : k \in named} |->
            configs[last(f)].agol_field.v]

\* what one pass of the loop body leaves behind
Step(t, drops, e) == [df |-> t, drops |-> drops, err |-> e]

\* self.df[c] = <the outcomes of an apply>: the first exception propagates,
\* otherwise the column is assigned
Assign(t, drops, c, outs) ==
    IF AnyRaised(outs) THEN Step(t, drops, FirstRaised(outs))
    ELSE Step(SetColumn(t, c, Values(outs)), drops, NoError)

\* fields_to_drop.append(parent_field), reached when nothing was raised
AppendDrop(step, parent_field) ==
    IF step.err.raised THEN step
    ELSE [step EXCEPT !.drops = Append(@, parent_field)]

\* lines 88-91 with the parent removed as soon as one child is taken
FlattenColumn_DropsParentAtOnce(t, drops, agol, parent_field, child_field) ==
    IF ~HasCol(t, parent_field)
    THEN Step(t, drops, Raise("KeyError", Text(parent_field)))
    ELSE LET step == Assign(t, drops, agol,
                            [r \in 1..NumRows(t) |->
                                flatten(t.rows[r][parent_field], child_field)])
         IN IF step.err.raised THEN step
            ELSE Step(DropColumns(step.df, {parent_field}), drops, NoError)
\* lines 88-91
FlattenColumn(t, drops, agol, parent_field, child_field) ==
    IF ~HasCol(t, parent_field)
    THEN Step(t, drops, Raise("KeyError", Text(parent_field)))
    ELSE AppendDrop(Assign(t, drops, agol,
                           [r \in 1..NumRows(t) |->
                               flatten(t.rows[r][parent_field], child_field)]),
                    parent_field)

\* the `if field_config.flatten:` block of the loop body
FlattenBlock(t, drops, fc) ==
    IF ~fc.flatten THEN Step(t, drops, NoError)
    ELSE FlattenColumn(t, drops, fc.agol_field.v,
                       Split(fc.sf_field.v, ".")[1], Split(fc.sf_field.v, ".")[2])

\* the if/elif chain on field_type of the loop body
TypeBlock(t, drops, fc) ==
    CASE fc.field_type = static ->
           Step(SetColumn(t, fc.agol_field.v,
                          [r \in 1..NumRows(t) |-> fc.static_value]),
                drops, NoError)
      [] fc.field_type \in {integer, text} /\ ~HasCol(t, fc.agol_field.v) ->
           Step(t, drops, Raise("KeyError", Text(fc.agol_field.v)))
      [] fc.field_type = integer /\ HasCol(t, fc.agol_field.v) ->
           Assign(t, drops, fc.agol_field.v,
                  [r \in 1..NumRows(t) |->
                      convert_to_int(t.rows[r][fc.agol_field.v])])
      [] fc.field_type = text /\ HasCol(t, fc.agol_field.v) ->
           Assign(t, drops, fc.agol_field.v,
                  [r \in 1..NumRows(t) |->
                      Return(PyStr(Str(t.rows[r][fc.agol_field.v])))])
      [] fc.field_type = composite ->
           Assign(t, drops, fc.agol_field.v,
                  [r \in 1..NumRows(t) |->
                      Wrap(Format(fc.composite_format.v, t.rows[r]))])
      [] OTHER -> Step(t, drops, NoError)

\* the type block runs when the flatten block raised nothing
AndThenType(flat, fc) ==
    IF flat.err.raised THEN flat ELSE TypeBlock(flat.df, flat.drops, fc)

\* one pass of `for field_config in self.field_configs`
LoopBody(t, drops, fc) == AndThenType(FlattenBlock(t, drops, fc), fc)

\* palletjack.transform.DataCleaning, called after the loop.  The library is
\* not part of the repository; each conversion is modelled by its documented
\* contract on the cells of a column: a null stays null, a value of the
\* target type is kept, a value the target type cannot hold raises.
RaiseTypeError(r) ==
    IF r.raised THEN Raise("TypeError", "Cannot convert one or more fields to floats")
    ELSE r
AsNullableInt(x) ==
    IF IsNone(x) \/ IsInt(x) THEN Return(x)
    ELSE Raise("TypeError", "Cannot convert one or more fields to nullable ints")
AsFloat(x) ==
    CASE IsNone(x) \/ IsInt(x) -> Return(x)
      [] IsStr(x) -> RaiseTypeError(IntOfStr(x.v))
      [] OTHER -> Raise("TypeError", "Cannot convert one or more fields to floats")
\* a date is written as a four-digit year, the shortest ISO 8601 form
AsDatetime(x) ==
    CASE IsNone(x) -> Return(x)
      [] IsStr(x) /\ Len(x.v) = 4 /\ (\A k \in 1..4 : IsDigit(x.v[k])) -> Return(x)
      [] OTHER -> Raise("ValueError", "Unknown datetime string format")

\* the cast a conversion applies to each cell of a column
Cast(kind, x) ==
    CASE kind = integer -> AsNullableInt(x)
      [] kind = float -> AsFloat(x)
      [] kind = date -> AsDatetime(x)

\* a conversion's result for one column: its outcomes assigned, or its first
\* exception
Retyped(t, c, outs) ==
    IF AnyRaised(outs) THEN [df |-> t, err |-> FirstRaised(outs)]
    ELSE [df |-> SetColumn(t, c, Values(outs)), err |-> NoError]

RetypeColumn(t, c, kind) ==
    IF ~HasCol(t, c) THEN [df |-> t, err |-> Raise("KeyError", Text(c))]
    ELSE Retyped(t, c, [r \in 1..NumRows(t) |-> Cast(kind, t.rows[r][c])])

\* [c.agol_field for c in self.field_configs if c.field_type == kind]
RECURSIVE FieldsOfType(_, _)
FieldsOfType(configs, kind) ==
    IF configs = <<>> THEN <<>>
    ELSE (IF Head(configs).field_type = kind
          THEN <<Head(configs).agol_field.v>> ELSE <<>>)
         \o FieldsOfType(Tail(configs), kind)

\* the columns are converted one after the other until one raises
RECURSIVE RetypeColumns(_, _, _), RetypeRest(_, _, _)
RetypeColumns(t, fields, kind) ==
    IF fields = <<>> THEN [df |-> t, err |-> NoError]
    ELSE RetypeRest(RetypeColumn(t, Head(fields), kind), Tail(fields), kind)
RetypeRest(one, fields, kind) ==
    IF one.err.raised THEN one ELSE RetypeColumns(one.df, fields, kind)

switch_to_nullable_int(t, fields) == RetypeColumns(t, fields, integer)
switch_to_float(t, fields) == RetypeColumns(t, fields, float)
switch_to_datetime(t, fields) == RetypeColumns(t, fields, date)

\* each conversion runs when the one before it raised nothing
FloatsAfter(out, configs) ==
    IF out.err.raised THEN out
    ELSE switch_to_float(out.df, FieldsOfType(configs, float))
DatesAfter(out, configs) ==
    IF out.err.raised THEN out
    ELSE switch_to_datetime(out.df, FieldsOfType(configs, date))

\* the three conversions that end extract_data_from_salesforce
Retype(t, configs) ==
    DatesAfter(
        FloatsAfter(switch_to_nullable_int(t, FieldsOfType(configs, integer)),
                    configs),
        configs)

-----------------------------------------------------------------------------
(* Inputs of the single-call specifications *)

\* all sequences over S of length at most n
RECURSIVE SeqsUpTo(_, _)
SeqsUpTo(S, n) ==
    IF n = 0 THEN {<<>>}
    ELSE LET shorter == SeqsUpTo(S, n - 1)
         IN shorter \cup {Append(q, c) : q \in shorter, c \in S}

S_SF == <<"S", "F">>
S_NoDotField == <<"N", "o", "D", "o", "t">>
S_ParentChild == <<"P", ".", "C">>
S_GrandparentParentChild == <<"G", ".", "P", ".", "C">>
S_AGOL == <<"A", "G", "O", "L">>
S_Alias == <<"A", "l", "i", "a", "s">>

FcFieldTypes == FieldTypes \cup {"invalid_type"}
FcStaticValues == {None, PyStr(<<"v", "a", "l", "u", "e">>)}
FcCompositeFormats == {None, PyStr(<<"{", "f", "}">>)}
FcSfFields == {None, PyStr(S_SF), PyStr(S_NoDotField), PyStr(S_ParentChild),
               PyStr(S_GrandparentParentChild)}

FcArgs == [agol_field : {PyStr(S_AGOL)}, sf_field : FcSfFields,
           alias : {PyStr(S_Alias)}, field_type : FcFieldTypes,
           static_value : FcStaticValues,
           composite_format : FcCompositeFormats, flatten : BOOLEAN]

K_Child == <<"C">>
K_Other == <<"O">>
K_Nested == <<"N">>
FlKeys == {K_Child, K_Other, K_Nested}
FlLeaves == {None, PyStr(<<"x">>), PyInt(42),
             PyDict(<<<<<<"D">>, PyStr(<<"v">>)>>>>)}
FlDicts ==
    {PyDict(items) : items \in
        {q \in SeqsUpTo(FlKeys \X FlLeaves, MaxItems) :
            \A a, b \in 1..Len(q) : a # b => q[a][1] # q[b][1]}}
FlObjects == {None, PyStr(<<"s">>), PyStr(<<>>), PyInt(0), PyInt(42)} \cup FlDicts
FlChildren == {K_Child, K_Nested}

CiChars == {"0", "1", "2", "-", "+", " ", "_", "a"}
CiStrings == {PyStr(q) : q \in SeqsUpTo(CiChars, MaxStrLen)}
CiObjects == {None, PyInt(-1), PyInt(0), PyInt(123), PyDict(<<>>),
              PyDict(<<<<<<"D">>, PyStr(<<"v">>)>>>>)} \cup CiStrings

-----------------------------------------------------------------------------
(* The pipeline at rest, for the single-call specifications *)

\* no earlier call of the method
NoRun == [pc |-> "none"]

\* Skid.update at rest
updateVars == <<update_pc, dataset, frames, counts, services, messages,
                update_error, IS_LOCAL_DEV>>
UpdateIdle ==
    /\ update_pc = "idle"
    /\ dataset = 0
    /\ frames = <<>>
    /\ counts = <<>>
    /\ services = <<>>
    /\ messages = <<>>
    /\ update_error = NoError
    /\ IS_LOCAL_DEV = FALSE

PipelineIdle ==
    /\ earlier = NoRun
    /\ UpdateIdle
    /\ field_configs = <<>>
    /\ where_clause = None
    /\ salesforce_api = <<>>
    /\ raw = [cols |-> <<>>, rows |-> <<>>]
    /\ query = <<>>
    /\ df = [cols |-> <<>>, rows |-> <<>>]
    /\ fields_to_drop = <<>>
    /\ idx = 0
    /\ pc = "idle"
    /\ error = NoError

pipelineVars == <<field_configs, where_clause, salesforce_api, raw, query, df,
                  fields_to_drop, idx, pc, error, earlier, updateVars>>

-----------------------------------------------------------------------------
(* One FieldConfig(...) call *)

InitFieldConfig ==
    /\ fc_args \in FcArgs
    /\ fc_result = Pending
    /\ fl_args = <<>> /\ fl_result = Pending
    /\ ci_arg = None /\ ci_result = Pending
    /\ PipelineIdle

Construct ==
    /\ fc_result = Pending
    /\ fc_result' = FieldConfig(fc_args.agol_field, fc_args.sf_field,
                                fc_args.alias, fc_args.field_type,
                                fc_args.static_value, fc_args.composite_format,
                                fc_args.flatten)
    /\ UNCHANGED <<fc_args, fl_args, fl_result, ci_arg, ci_result, pipelineVars>>

SpecFieldConfig == InitFieldConfig /\ [][Construct]_vars

(* One flatten(x, child_field) call *)

InitFlatten ==
    /\ fl_args \in FlObjects \X FlChildren
    /\ fl_result = Pending
    /\ fc_args = <<>> /\ fc_result = Pending
    /\ ci_arg = None /\ ci_result = Pending
    /\ PipelineIdle

CallFlatten ==
    /\ fl_result = Pending
    /\ fl_result' = flatten(fl_args[1], fl_args[2])
    /\ UNCHANGED <<fc_args, fc_result, fl_args, ci_arg, ci_result, pipelineVars>>

SpecFlatten == InitFlatten /\ [][CallFlatten]_vars

(* One convert_to_int(s) call *)

InitConvert ==
    /\ ci_arg \in CiObjects
    /\ ci_result = Pending
    /\ fc_args = <<>> /\ fc_result = Pending
    /\ fl_args = <<>> /\ fl_result = Pending
    /\ PipelineIdle

CallConvert ==
    /\ ci_result = Pending
    /\ ci_result' = convert_to_int(ci_arg)
    /\ UNCHANGED <<fc_args, fc_result, fl_args, fl_result, ci_arg, pipelineVars>>

SpecConvert == InitConvert /\ [][CallConvert]_vars

-----------------------------------------------------------------------------
(* Properties of FieldConfig construction *)

\* the invariants a descriptor must satisfy, as the data model states them
FcKindKnown(a) ==
    a.field_type \in {"text", "integer", "float", "date", "static", "composite"}
FcStaticRule(a) == (a.static_value # None) <=> (a.field_type = "static")
FcCompositeRule(a) == (a.composite_format # None) <=> (a.field_type = "composite")
FcFlattenRule(a) ==
    a.flatten => (a.sf_field # None /\ \E k \in 1..Len(a.sf_field.v) : a.sf_field.v[k] = ".")
FcAllRules(a) ==
    FcKindKnown(a) /\ FcStaticRule(a) /\ FcCompositeRule(a) /\ FcFlattenRule(a)

\* C2: construction succeeds if and only if the kind is one of the six, a
\* static_value is given exactly for static, a composite_format exactly for
\* composite, and flatten implies a dotted sf_field; a success yields a
\* descriptor carrying the given values, a failure yields none.
C2_ConstructsIffValid ==
    fc_result # Pending =>
        /\ ~fc_result.raised <=> FcAllRules(fc_args)
        /\ ~fc_result.raised => fc_result.val = fc_args
        /\ fc_result.raised => DOMAIN fc_result = {"raised", "exc", "msg"}

\* C2 witness: flatten=true with several dots was accepted
C2_Witness ==
    /\ fc_result # Pending
    /\ ~fc_result.raised
    /\ fc_args.flatten
    /\ fc_args.sf_field = PyStr(S_GrandparentParentChild)
    /\ fc_result.val.sf_field = PyStr(S_GrandparentParentChild)

\* C3: every failed construction raises ValueError; a static_value given to a
\* non-static kind T is reported as "Field type 'T' cannot have a
\* 'static_value'", a composite_format given to a non-composite kind T as
\* "Field type 'T' cannot have a 'composite_format'", each with the actual T;
\* flatten without a separator (a null source name included) is reported as
\* the flatten violation.
C3_ErrorNamesInvariantAndValue ==
    (fc_result # Pending /\ fc_result.raised) =>
        /\ fc_result.exc = "ValueError"
        /\ (FcKindKnown(fc_args) /\ ~FcStaticRule(fc_args)
               /\ fc_args.field_type # "static")
             => fc_result.msg = "Field type '" \o fc_args.field_type
                                   \o "' cannot have a 'static_value'"
        /\ (FcKindKnown(fc_args) /\ FcStaticRule(fc_args)
               /\ ~FcCompositeRule(fc_args) /\ fc_args.field_type # "composite")
             => fc_result.msg = "Field type '" \o fc_args.field_type
                                   \o "' cannot have a 'composite_format'"
        /\ (FcKindKnown(fc_args) /\ FcStaticRule(fc_args)
               /\ FcCompositeRule(fc_args) /\ ~FcFlattenRule(fc_args))
             => fc_result.msg =
                    "Field '" \o (IF fc_args.sf_field = None THEN "None"
                                  ELSE Text(fc_args.sf_field.v))
                              \o "' cannot be flattened without a dot"

-----------------------------------------------------------------------------
(* Properties of flatten *)

\* C4: flatten(x, child) is null for a null x, is x[child] unchanged for a
\* mapping x that has the key child, and raises in every other case; it
\* never answers a substitute value there.
C4_FlattenContract ==
    fl_result # Pending =>
        LET x == fl_args[1]
            child == fl_args[2]
            hasChild == x.t = "dict" /\ \E j \in 1..Len(x.v) : x.v[j][1] = child
        IN /\ x = None => fl_result = Return(None)
           /\ hasChild => /\ ~fl_result.raised
                          /\ \E j \in 1..Len(x.v) : x.v[j] = <<child, fl_result.val>>
           /\ (x # None /\ ~hasChild) => fl_result.raised

\* C4 witness: a mapping without the child key made flatten raise
C4_Witness ==
    /\ fl_result # Pending
    /\ fl_args[1].t = "dict"
    /\ fl_args[1].v # <<>>
    /\ \A j \in 1..Len(fl_args[1].v) : fl_args[1].v[j][1] # fl_args[2]
    /\ fl_result.raised

-----------------------------------------------------------------------------
(* Properties of convert_to_int *)

\* the decimal numerals of the integers around zero
CiNumerals == {IntToStr(n) : n \in -222..222}
CiDone == ci_result # Pending

\* C6: convert_to_int gives n for the base-10 numeral of n, null for null,
\* and null for every string that is no base-10 integer, the empty string
\* included.
C6_UnparseableGivesNull ==
    CiDone =>
        /\ ci_arg = None => ci_result = Return(None)
        /\ (ci_arg.t = "str" /\ ci_arg.v \in CiNumerals)
             => /\ ~ci_result.raised
                /\ ci_result.val.t = "int"
                /\ IntToStr(ci_result.val.v) = ci_arg.v
        /\ (ci_arg.t = "str" /\ IntOfStr(ci_arg.v).raised)
             => ci_result = Return(None)

\* C7: integer coercion never raises, whatever the value is: null, string,
\* number or a nested mapping obtained by flattening.
C7_ConvertNeverRaises == CiDone => ~ci_result.raised

\* C8: the value answered for an unparseable string is never the result of a
\* successful parse.
C8_SentinelDistinctFromParsed ==
    (CiDone /\ ci_arg.t = "str" /\ ~IntOfStr(ci_arg.v).raised) =>
        \A u \in CiStrings :
            IntOfStr(u.v).raised => ci_result # convert_to_int(u)

-----------------------------------------------------------------------------
(* One run of extract_data_from_salesforce *)

C_A == <<"A">>
C_N == <<"N">>
C_P == <<"P">>
C_E == <<"E">>
K_C == <<"C">>
K_D == <<"D">>
S_year == <<"2", "0", "2", "0">>

\* FieldConfig(...) as config.py writes it: the descriptor, construction
\* having succeeded
Descriptor(agol, sf, kind, static_value, composite_format, flat) ==
    FieldConfig(PyStr(agol), sf, PyStr(agol), kind, static_value,
                composite_format, flat).val

\* the descriptors the runs draw their field_configs from
FC_text == Descriptor(<<"a">>, PyStr(C_A), text, None, None, FALSE)
FC_integer == Descriptor(<<"n">>, PyStr(C_N), integer, None, None, FALSE)
FC_flat_text == Descriptor(<<"m">>, PyStr(<<"P", ".", "C">>), text, None, None, TRUE)
FC_flat_integer ==
    Descriptor(<<"k">>, PyStr(<<"P", ".", "D">>), integer, None, None, TRUE)
FC_flat_date == Descriptor(<<"d">>, PyStr(<<"P", ".", "C">>), date, None, None, TRUE)
FC_flat_float == Descriptor(<<"f">>, PyStr(<<"P", ".", "D">>), float, None, None, TRUE)
FC_static == Descriptor(<<"s">>, None, static, PyStr(<<"v">>), None, FALSE)
FC_composite ==
    Descriptor(<<"c">>, None, composite, None,
               PyStr(<<"{", "a", "}", " ", "{", "E", "}">>), FALSE)

FieldPool == {FC_text, FC_integer, FC_flat_text, FC_flat_integer, FC_flat_date,
              FC_flat_float, FC_static, FC_composite}

\* descriptor sets: up to MaxFields distinct descriptors in any order
DescriptorSets ==
    {q \in SeqsUpTo(FieldPool, MaxFields) :
        q # <<>> /\ \A a, b \in 1..Len(q) : a # b => q[a] # q[b]}

\* the source columns a descriptor set asks the extractor for, in the order
\* of their first use
RECURSIVE SourceColumns(_, _)
SourceColumns(configs, seen) ==
    IF configs = <<>> THEN <<>>
    ELSE LET sf == Head(configs).sf_field
             col == IF IsNone(sf) THEN <<>> ELSE Split(sf.v, ".")[1]
         IN IF IsNone(sf) \/ col \in seen THEN SourceColumns(Tail(configs), seen)
            ELSE <<col>> \o SourceColumns(Tail(configs), seen \cup {col})

Reverse(q) == [k \in 1..Len(q) |-> q[Len(q) + 1 - k]]

\* cells the extractor may return in each column
CellsOf(c) ==
    CASE c = C_A -> {None, PyStr(<<"x">>), PyInt(123)}
      [] c = C_N -> {None, PyStr(<<"1", "2">>), PyStr(<<"a", "b">>)}
      [] c = C_P -> {None,
                     PyStr(<<"s">>),
                     PyDict(<<<<K_C, PyStr(S_year)>>, <<K_D, PyStr(<<"5">>)>>>>),
                     PyDict(<<<<K_C, None>>, <<K_D, PyStr(<<"a", "b">>)>>>>),
                     PyDict(<<<<K_D, PyDict(<<<<<<"Z">>, PyStr(<<"v">>)>>>>)>>>>)}
      [] c = C_E -> {PyStr(<<"e">>)}
      [] OTHER -> {PyDict(<<<<<<"t", "y", "p", "e">>, PyStr(<<"T">>)>>>>)}

RowsOver(colSet) ==
    {[c \in colSet |-> CASE c = C_A -> a [] c = C_N -> n [] c = C_P -> p
                         [] OTHER -> CHOOSE x \in CellsOf(c) : TRUE] :
        a \in CellsOf(C_A), n \in CellsOf(C_N), p \in CellsOf(C_P)}

HasComposite(configs) ==
    \E k \in 1..Len(configs) : configs[k].field_type = composite

\* what get_records may return for a descriptor set: the attributes column,
\* every source column and possibly an extra column no descriptor names, in
\* the order asked or in the opposite order, with up to MaxRows rows and up
\* to MaxCells cells in the source columns.  A table without rows is not
\* paired with a composite descriptor.
TablesOver(asked, configs) ==
    {[cols |-> order, rows |-> rows] :
        order \in {asked, Reverse(asked)},
        rows \in {q \in SeqsUpTo(RowsOver({asked[k] : k \in 1..Len(asked)}), MaxRows) :
                     /\ HasComposite(configs) => q # <<>>
                     /\ Len(q) * Len(SourceColumns(configs, {})) <= MaxCells}}
\* Some tables lack the first source column asked for.
RawTables(configs) ==
    TablesOver(<<S_attributes>> \o SourceColumns(configs, {}), configs)
        \cup TablesOver(<<S_attributes>> \o SourceColumns(configs, {}) \o <<C_E>>,
                        configs)
        \cup (IF SourceColumns(configs, {}) = <<>> THEN {}
              ELSE TablesOver(<<S_attributes>> \o Tail(SourceColumns(configs, {})),
                              configs))

Init ==
    /\ field_configs \in DescriptorSets
    /\ where_clause = PyStr(<<"W">>)
    /\ salesforce_api = <<"T">>
    /\ raw \in RawTables(field_configs)
    /\ query = <<>>
    /\ df = [cols |-> <<>>, rows |-> <<>>]
    /\ fields_to_drop = <<>>
    /\ idx = 0
    /\ pc = "start"
    /\ error = NoError
    /\ earlier = NoRun
    /\ UpdateIdle
    /\ fc_args = <<>> /\ fc_result = Pending
    /\ fl_args = <<>> /\ fl_result = Pending
    /\ ci_arg = None /\ ci_result = Pending

callVars == <<fc_args, fc_result, fl_args, fl_result, ci_arg, ci_result,
              earlier, updateVars>>
inputVars == <<field_configs, where_clause, salesforce_api, raw>>

\* lines 60-71 with the table of an earlier call kept instead of the
\* extractor's answer
GetRecords_KeepsTable ==
    /\ pc = "start"
    /\ query' = BuildQuery(field_configs, salesforce_api, where_clause)
    /\ df' = IF df.cols = <<>> THEN raw ELSE df
    /\ pc' = "extracted"
    /\ UNCHANGED <<callVars, inputVars, fields_to_drop, idx, error>>
\* lines 60-71: build the query and take what the extractor returns
GetRecords ==
    /\ pc = "start"
    /\ query' = BuildQuery(field_configs, salesforce_api, where_clause)
    /\ df' = raw
    /\ pc' = "extracted"
    /\ UNCHANGED <<callVars, inputVars, fields_to_drop, idx, error>>

\* line 73: self.df.drop(columns=["attributes"], inplace=True)
DropAttributes ==
    /\ pc = "extracted"
    /\ IF HasCol(df, S_attributes)
       THEN /\ df' = DropColumns(df, {S_attributes})
            /\ pc' = "cleaned"
            /\ error' = error
       ELSE /\ df' = df
            /\ pc' = "failed"
            /\ error' = Raise("KeyError", Text(S_attributes))
    /\ UNCHANGED <<callVars, inputVars, query, fields_to_drop, idx>>

\* lines 75-82: rename the source columns, start the loop
Rename ==
    /\ pc = "cleaned"
    /\ df' = RenameColumns(df, field_mappings(field_configs))
    /\ fields_to_drop' = <<>>
    /\ idx' = 1
    /\ pc' = "loop"
    /\ UNCHANGED <<callVars, inputVars, query, error>>

\* lines 83-105: one pass of the loop
Derive ==
    /\ pc = "loop"
    /\ idx <= Len(field_configs)
    /\ LET out == LoopBody(df, fields_to_drop, field_configs[idx])
       IN /\ df' = out.df
          /\ fields_to_drop' = out.drops
          /\ error' = out.err
          /\ pc' = IF out.err.raised THEN "failed" ELSE "loop"
          /\ idx' = IF out.err.raised THEN idx ELSE idx + 1
    /\ UNCHANGED <<callVars, inputVars, query>>

\* lines 107-109: drop the parents of the flattened fields
DropParents ==
    /\ pc = "loop"
    /\ idx > Len(field_configs)
    /\ LET names == {fields_to_drop[k] : k \in 1..Len(fields_to_drop)}
       IN IF Len(fields_to_drop) > 0 /\ ~(names \subseteq ColSet(df))
          THEN /\ df' = df
               /\ pc' = "failed"
               /\ error' = Raise("KeyError", "not found in axis")
          ELSE /\ df' = IF Len(fields_to_drop) > 0 THEN DropColumns(df, names)
                        ELSE df
               /\ pc' = "dropped"
               /\ error' = error
    /\ UNCHANGED <<callVars, inputVars, query, fields_to_drop, idx>>

\* lines 111-135: the type conversions; the method returns
SwitchTypes ==
    /\ pc = "dropped"
    /\ LET out == Retype(df, field_configs)
       IN /\ df' = out.df
          /\ error' = out.err
          /\ pc' = IF out.err.raised THEN "failed" ELSE "done"
    /\ UNCHANGED <<callVars, inputVars, query, fields_to_drop, idx>>

Next ==
    \/ GetRecords
    \/ DropAttributes
    \/ Rename
    \/ Derive
    \/ DropParents
    \/ SwitchTypes

Spec == Init /\ [][Next]_vars

-----------------------------------------------------------------------------
(* Properties of the table a run produces *)

Done == pc = "done"
Failed == pc = "failed"
NumFields == Len(field_configs)
OutputNames == [k \in 1..NumFields |-> field_configs[k].agol_field.v]
HasField(fc) == \E k \in 1..NumFields : field_configs[k] = fc
S_None == <<"N", "o", "n", "e">>

\* C1: whatever the order of the raw columns and whatever extra columns the
\* raw table has, the columns of the produced table are exactly the
\* descriptors' output names, in descriptor order.
C1_ColumnsAreOutputNamesInOrder == Done => df.cols = OutputNames

\* the parent column a flattened descriptor reads: the source name up to its
\* first separator
ParentOf(fc) ==
    SubSeq(fc.sf_field.v, 1,
           (CHOOSE k \in 1..Len(fc.sf_field.v) :
               fc.sf_field.v[k] = "."
               /\ \A m \in 1..(k - 1) : fc.sf_field.v[m] # ".") - 1)

\* C5: in the produced table, for every flattened descriptor of any kind
\* and every row whose parent cell is null, the output cell is null.
C5_NullParentGivesNull ==
    Done =>
        \A k \in 1..NumFields : \A r \in 1..Len(raw.rows) :
            (field_configs[k].flatten
                /\ raw.rows[r][ParentOf(field_configs[k])] = None)
              => df.rows[r][field_configs[k].agol_field.v] = None

\* C5 as amended: in the produced table, for every flattened descriptor of
\* kind integer, float or date and every row whose parent cell is null, the
\* output cell is null; for a flattened descriptor of kind text it is the
\* string "None".
C5_NullParentGivesNullUnlessText ==
    Done =>
        \A k \in 1..NumFields : \A r \in 1..Len(raw.rows) :
            (field_configs[k].flatten
                /\ raw.rows[r][ParentOf(field_configs[k])] = None)
              => df.rows[r][field_configs[k].agol_field.v] =
                    IF field_configs[k].field_type = "text"
                    THEN PyStr(S_None) ELSE None

\* C5 witness: a flattened date and a flattened text descriptor met a null
\* parent and the table was produced
C5_Witness ==
    /\ Done
    /\ field_configs = <<FC_flat_date, FC_flat_text>>
    /\ Len(raw.rows) = 1
    /\ raw.rows[1][C_P] = None
    /\ df.rows[1][<<"d">>] = None
    /\ df.rows[1][<<"m">>] = PyStr(S_None)

\* the value a descriptor's column starts from in row r of the raw table:
\* the source cell, or for a flattened descriptor the child of a mapping
\* (null for a null parent)
SourceCell(fc, r) ==
    IF ~fc.flatten THEN raw.rows[r][fc.sf_field.v]
    ELSE LET parent == raw.rows[r][ParentOf(fc)]
             child == SubSeq(fc.sf_field.v, Len(ParentOf(fc)) + 2, Len(fc.sf_field.v))
         IN IF parent = None THEN None
            ELSE (CHOOSE item \in {parent.v[j] : j \in 1..Len(parent.v)} :
                     item[1] = child)[2]

\* C9: for every text-kind descriptor each output cell is the string form of
\* the source value: a number becomes its decimal numeral (123 gives "123"),
\* a string is unchanged, a null becomes "None", never "" and never null.
C9_TextIsStringForm ==
    Done =>
        \A k \in 1..NumFields : \A r \in 1..Len(raw.rows) :
            field_configs[k].field_type = "text" =>
                LET src == SourceCell(field_configs[k], r)
                    out == df.rows[r][field_configs[k].agol_field.v]
                IN /\ out.t = "str"
                   /\ src.t = "none" => out.v = S_None
                   /\ src.t = "str" => out = src
                   /\ src.t = "int" => IntOfStr(out.v) = Return(src)
                   /\ src = PyInt(123) => out.v = <<"1", "2", "3">>

\* C9 witness: a text column was produced from a null source cell
C9_Witness ==
    /\ Done
    /\ HasField(FC_text)
    /\ Len(raw.rows) = 1
    /\ raw.rows[1][C_A] = None
    /\ df.rows[1][<<"a">>] = PyStr(S_None)

C11_StaticColumnHoldsConstant ==
    Done =>
        \A k \in 1..NumFields :
            field_configs[k].field_type = static =>
                /\ HasCol(df, field_configs[k].agol_field.v)
                /\ Len(df.rows) = Len(raw.rows)
                /\ \A r \in 1..Len(df.rows) :
                       df.rows[r][field_configs[k].agol_field.v] =
                           field_configs[k].static_value

\* C11 witness: a table without rows was produced for a static descriptor
\* whose column the raw table did not have
C11_Witness ==
    /\ Done
    /\ HasField(FC_static)
    /\ ~HasCol(raw, <<"s">>)
    /\ raw.rows = <<>>
    /\ HasCol(df, <<"s">>)

\* the descriptors that flatten a child of the parent column p, and the
\* parents that two or more descriptors share
FlattenersOf(p) ==
    {k \in 1..NumFields :
        field_configs[k].flatten /\ ParentOf(field_configs[k]) = p}
SharedParents ==
    {p \in {ParentOf(field_configs[k]) :
                k \in {j \in 1..NumFields : field_configs[j].flatten}} :
        Cardinality(FlattenersOf(p)) >= 2}

\* the parent column is in the table with the cells the extractor returned
ParentIntact(p) ==
    /\ HasCol(df, p)
    /\ \A r \in 1..Len(raw.rows) : df.rows[r][p] = raw.rows[r][p]

\* what the loop leaves in the column of a flattened descriptor for row r
DerivedCell(fc, r) ==
    CASE fc.field_type = text -> PyStr(Str(SourceCell(fc, r)))
      [] fc.field_type = integer -> convert_to_int(SourceCell(fc, r)).val
      [] OTHER -> SourceCell(fc, r)

\* the loop is running or has just ended
InLoop == pc = "loop"

\* C12, in every state: for a parent that two or more descriptors flatten
\* and that the extractor returned, the parent column is intact as long as the loop runs, so also when the
\* last of them is processed; every descriptor already processed holds the
\* child of that intact parent; the removal after the loop raises nothing;
\* the produced table has no parent column.
C12_SharedParentState ==
    \A p \in SharedParents \cap ColSet(raw) :
        /\ InLoop => ParentIntact(p)
        /\ InLoop =>
              \A k \in FlattenersOf(p) : \A r \in 1..Len(raw.rows) :
                  k < idx =>
                      df.rows[r][field_configs[k].agol_field.v] =
                          DerivedCell(field_configs[k], r)
        /\ ~(Failed /\ error = Raise("KeyError", "not found in axis"))
        /\ pc \in {"dropped", "done"} => ~HasCol(df, p)

\* C12, in every step: a shared parent column leaves the table only in the
\* one step that follows the loop, after every descriptor was processed.
C12_SharedParentStep ==
    (\E p \in SharedParents : HasCol(df, p) /\ ~HasCol(df', p))
        => (InLoop /\ idx > NumFields /\ pc' = "dropped")

\* C12: descriptors that flatten the same parent all read the intact
\* parent, the parent is removed once, after the loop and without error, and
\* is absent from the produced table.
C12_ParentDroppedOnceAfterAll ==
    [](C12_SharedParentState) /\ [][C12_SharedParentStep]_vars

\* C12 witness: two descriptors flattened children of the same mapping and
\* the table was produced without the parent column
C12_Witness ==
    /\ Done
    /\ field_configs = <<FC_flat_date, FC_flat_float>>
    /\ Len(raw.rows) = 1
    /\ raw.rows[1][C_P] \in CellsOf(C_P) \ {None, PyStr(<<"s">>)}
    /\ fields_to_drop = <<C_P, C_P>>
    /\ ~HasCol(df, C_P)
    /\ df.rows[1][<<"d">>] = PyStr(S_year)
    /\ df.rows[1][<<"f">>] = PyInt(5)

\* the rename step has just run
Renamed == InLoop /\ idx = 1

\* a descriptor with a source name that is neither flattened nor composite
Plain(fc) == ~IsNone(fc.sf_field) /\ ~fc.flatten /\ fc.field_type # composite

\* column c of the table holds what column d of the raw table held
SameCells(c, d) == \A r \in 1..Len(raw.rows) : df.rows[r][c] = raw.rows[r][d]

\* C13: right after the rename step, a plain descriptor whose source column
\* the extractor returned has a column named agol_field with the source
\* column's cells and no column named sf_field any more; a plain descriptor
\* whose source column is absent got no column and no error was raised; the
\* parent column of a flattened descriptor still has its own name and cells.
C13_RenameStep ==
    Renamed =>
        /\ error = NoError
        /\ Len(df.cols) = Len(raw.cols) - 1
        /\ \A k \in 1..NumFields :
              LET fc == field_configs[k]
              IN /\ (Plain(fc) /\ HasCol(raw, fc.sf_field.v)) =>
                        /\ HasCol(df, fc.agol_field.v)
                        /\ SameCells(fc.agol_field.v, fc.sf_field.v)
                        /\ (fc.sf_field.v # fc.agol_field.v
                              => ~HasCol(df, fc.sf_field.v))
                 /\ (Plain(fc) /\ ~HasCol(raw, fc.sf_field.v)) =>
                        ~HasCol(df, fc.agol_field.v)
                 /\ (fc.flatten /\ HasCol(raw, ParentOf(fc))) =>
                        /\ HasCol(df, ParentOf(fc))
                        /\ SameCells(ParentOf(fc), ParentOf(fc))
                        /\ ~HasCol(df, fc.agol_field.v)

\* C13 witness: of two plain descriptors one source column was returned and
\* renamed, the other was absent and skipped
C13_Witness ==
    /\ Renamed
    /\ field_configs = <<FC_integer, FC_text>>
    /\ ~HasCol(raw, C_N)
    /\ HasCol(raw, C_A)
    /\ Len(raw.rows) = 1
    /\ HasCol(df, <<"a">>)
    /\ ~HasCol(df, C_A)
    /\ ~HasCol(df, <<"n">>)
    /\ df.rows[1][<<"a">>] = raw.rows[1][C_A]

-----------------------------------------------------------------------------
(* The query extract_data_from_salesforce sends *)

S_SELECT == <<"S", "E", "L", "E", "C", "T", " ">>
S_from == <<" ", "f", "r", "o", "m", " ">>
S_WHERE == <<" ", "W", "H", "E", "R", "E", " ">>

\* the where clauses and resources the queries are built for: no filter, an
\* empty filter, a filter
WhereClauses == {None, PyStr(<<>>), PyStr(<<"x", "=", "'", "y", "'">>)}
Resources == {<<"T">>, <<"U", "_", "c">>}

\* a run of the method for each descriptor set, where clause and resource;
\* the extractor returns a table without rows
InitQuery ==
    /\ field_configs \in DescriptorSets
    /\ where_clause \in WhereClauses
    /\ salesforce_api \in Resources
    /\ raw = [cols |-> <<S_attributes>> \o SourceColumns(field_configs, {}),
              rows |-> <<>>]
    /\ query = <<>>
    /\ df = [cols |-> <<>>, rows |-> <<>>]
    /\ fields_to_drop = <<>>
    /\ idx = 0
    /\ pc = "start"
    /\ error = NoError
    /\ earlier = NoRun
    /\ UpdateIdle
    /\ fc_args = <<>> /\ fc_result = Pending
    /\ fl_args = <<>> /\ fl_result = Pending
    /\ ci_arg = None /\ ci_result = Pending

SpecQuery == InitQuery /\ [][GetRecords]_vars

\* the query went to the extractor
Sent == pc = "extracted"

\* the descriptors that have a source name, in descriptor order
Named == SelectSeq(field_configs, LAMBDA c : c.sf_field # None)

\* what follows the column list in a query
QueryTail ==
    S_from \o salesforce_api
        \o (IF where_clause = None THEN <<>> ELSE S_WHERE \o where_clause.v)

\* the column list of the query sent: what stands between "SELECT " and the
\* tail
QueryColumns ==
    SubSeq(query, Len(S_SELECT) + 1, Len(query) - Len(QueryTail))

\* C14: the query sent is "SELECT ", the source names of the descriptors
\* that have one, in descriptor order and separated by ",", " from " and the
\* resource, followed by " WHERE " and the filter exactly when the filter is
\* not null; the filter is copied as it is and a descriptor without source
\* name adds nothing.
C14_QueryText ==
    Sent =>
        /\ Len(query) >= Len(S_SELECT) + Len(QueryTail)
        /\ SubSeq(query, 1, Len(S_SELECT)) = S_SELECT
        /\ SubSeq(query, Len(query) - Len(QueryTail) + 1, Len(query)) = QueryTail
        /\ IF Named = <<>> THEN QueryColumns = <<>>
           ELSE Split(QueryColumns, ",") =
                    [k \in 1..Len(Named) |-> Named[k].sf_field.v]
        /\ (where_clause = None) <=>
               SubSeq(query, Len(query) - Len(salesforce_api) + 1, Len(query))
                   = salesforce_api
                 /\ SubSeq(query, Len(query) - Len(salesforce_api) - Len(S_from) + 1,
                           Len(query) - Len(salesforce_api)) = S_from

\* C14 witness: a query with a filter was sent for a descriptor without
\* source name followed by one with a source name
C14_Witness ==
    /\ Sent
    /\ field_configs = <<FC_static, FC_flat_text>>
    /\ salesforce_api = <<"T">>
    /\ where_clause = PyStr(<<"x", "=", "'", "y", "'">>)
    /\ Text(query) = "SELECT P.C from T WHERE x='y'"

-----------------------------------------------------------------------------
(* Properties of the steps of a run *)

\* the positions after line 73: rename, loop, removal of the parents,
\* conversions, and the end of the method, by return or by exception
PastAttributes == pc \in {"cleaned", "loop", "dropped", "done", "failed"}

\* C15: the attributes column the extractor returns is gone before the
\* rename step and every pass of the loop, so no descriptor reads it, and
\* the table the method leaves in self.df, after a return or an exception,
\* has no column named attributes.
C15_AttributesDroppedFirst ==
    /\ PastAttributes => ~HasCol(df, S_attributes)
    /\ PastAttributes =>
          \A r \in 1..Len(df.rows) : S_attributes \notin DOMAIN df.rows[r]
    /\ pc = "extracted" => HasCol(df, S_attributes)

\* C15 witness: the extractor returned a row with the attributes column and
\* the table was produced without it
C15_Witness ==
    /\ Done
    /\ HasCol(raw, S_attributes)
    /\ Len(raw.rows) = 1
    /\ S_attributes \in DOMAIN raw.rows[1]
    /\ ~HasCol(df, S_attributes)
    /\ S_attributes \notin DOMAIN df.rows[1]

-----------------------------------------------------------------------------
(* Repeated calls of extract_data_from_salesforce *)

\* how a call ended: by return or exception, with the table left in self.df
Outcome == [pc |-> pc, df |-> df, error |-> error]
Ended == pc \in {"done", "failed"}

\* the method is called once more on the same object; the descriptors are
\* the same and the extractor will return an equal table
RunAgain ==
    /\ Ended
    /\ earlier = NoRun
    /\ earlier' = Outcome
    /\ pc' = "start"
    /\ error' = NoError
    /\ UNCHANGED <<fc_args, fc_result, fl_args, fl_result, ci_arg, ci_result,
                   updateVars, inputVars, query, df, fields_to_drop, idx>>

NextRepeat ==
    \/ Next
    \/ RunAgain

SpecRepeat == Init /\ [][NextRepeat]_vars

-----------------------------------------------------------------------------
(* Skid.update (main.py) *)

\* extract_data_from_salesforce as one call: the table it leaves in self.df
\* and the exception it raised, if any
Ran(t, e) == [df |-> t, err |-> e]

\* the loop of lines 83-105 from field k on
RECURSIVE LoopFrom(_, _, _)
LoopFrom(step, configs, k) ==
    IF step.err.raised \/ k > Len(configs) THEN step
    ELSE LoopFrom(LoopBody(step.df, step.drops, configs[k]), configs, k + 1)

\* lines 107-109 after the loop
DropListed(t, names) ==
    IF names = {} THEN Ran(t, NoError)
    ELSE IF ~(names \subseteq ColSet(t))
    THEN Ran(t, Raise("KeyError", "not found in axis"))
    ELSE Ran(DropColumns(t, names), NoError)
AfterLoop(step) ==
    IF step.err.raised THEN Ran(step.df, step.err)
    ELSE DropListed(step.df, {step.drops[k] : k \in 1..Len(step.drops)})

\* lines 111-135 after the removal of the parents
AfterDrop(ran, configs) ==
    IF ran.err.raised THEN ran ELSE Retype(ran.df, configs)

extract_data_from_salesforce(t, configs) ==
    IF ~HasCol(t, S_attributes) THEN Ran(t, Raise("KeyError", Text(S_attributes)))
    ELSE AfterDrop(
             AfterLoop(
                 LoopFrom(Step(RenameColumns(DropColumns(t, {S_attributes}),
                                             field_mappings(configs)),
                               <<>>, NoError),
                          configs, 1)),
             configs)

\* the datasets in the order update works on them
Datasets == <<"facilities", "releases", "tanks", "compartments">>
NumDatasets == Len(Datasets)

\* config.FACILITIES_TITLE and the like
TitleOf(d) ==
    CASE d = 1 -> "Utah Petroleum Storage Tanks Facilities"
      [] d = 2 -> "Utah Petroleum Storage Tank Releases"
      [] d = 3 -> "Utah Petroleum Storage Tanks"
      [] d = 4 -> "Utah Petroleum Storage Tank Compartments"

\* the descriptors of each dataset: a text field and a flattened text field
\* for the releases, an integer field for the tanks, a flattened text and a
\* flattened date field for the compartments (config.py 118-185)
FieldsOf(d) ==
    CASE d = 2 -> <<FC_text, FC_flat_text>>
      [] d = 3 -> <<FC_integer>>
      [] d = 4 -> <<FC_flat_text, FC_flat_date>>

\* what the extractor returns to update for a dataset: no row, or rows with
\* a value, a mapping, a mapping without the child or a value that is no
\* mapping in the parent column
UpdateCells(c) ==
    CASE c = C_A -> {PyStr(<<"x">>)}
      [] c = C_N -> {PyStr(<<"1", "2">>)}
      [] c = C_P -> CellsOf(C_P) \ {None}
      [] OTHER -> CellsOf(c)
UpdateRows(colSet) ==
    {[c \in colSet |-> IF c = C_P THEN p ELSE CHOOSE x \in UpdateCells(c) : TRUE] :
        p \in UpdateCells(C_P)}
UpdateTables(asked, cells) ==
    {[cols |-> asked, rows |-> rows] :
        rows \in {q \in SeqsUpTo(UpdateRows({asked[k] : k \in 1..Len(asked)}),
                                 MaxRows) :
                     Len(q) * cells <= MaxCells}}
UpdateRaw(d) ==
    UpdateTables(<<S_attributes>> \o SourceColumns(FieldsOf(d), {}),
                 Len(SourceColumns(FieldsOf(d), {})))

\* a call's result as the caller sees it
Called(ran) == IF ran.err.raised THEN ran.err ELSE Return(ran.df)

\* what _get_releases, _get_tanks and _get_compartments hand to update: the
\* table of a completed extract_data_from_salesforce, or its exception
SalesforceFrames(d) ==
    {Called(extract_data_from_salesforce(t, FieldsOf(d))) : t \in UpdateRaw(d)}

\* what _get_facilities hands to update: a spatial table, or the exception
\* of one of its calls
FacilitiesFrames ==
    {Return([cols |-> <<<<"a">>>>, rows |-> rows]) :
        rows \in SeqsUpTo({[c \in {<<"a">>} |-> PyStr(<<"x">>)]}, MaxRows)}
      \cup {Raise("KeyError", "NORTHING")}

GetFrames(d) == IF d = 1 THEN FacilitiesFrames ELSE SalesforceFrames(d)

\* what a hosted service holds: the data of before the run, nothing, or the
\* table of this run
Old == [state |-> "old"]
Truncated == [state |-> "truncated"]
Loaded(t) == [state |-> "loaded", table |-> t]

\* the wall clock readings of a run
Clock == {0, 1}

\* a row of the summary: under a dataset's title, the number of rows loaded
CountRow(d, n) == TitleOf(d) \o " rows loaded: " \o Text(IntToStr(n))

\* summary rows with the count of the tanks under the compartments' title
\* as well
SummaryRows_TanksCountTwice(start, end, cs) ==
    <<"deq-tanks update 2026-01-01",
      "====================",
      "",
      "Start time: 08:00:0" \o Text(IntToStr(start)),
      "End time: 08:00:0" \o Text(IntToStr(end)),
      "Duration: 0:00:0" \o Text(IntToStr(end - start)),
      "">> \o [d \in 1..NumDatasets |->
                 CountRow(d, cs[IF d = NumDatasets THEN d - 1 ELSE d])]

\* summary_rows (lines 340-352): the times and the count rows
SummaryRows(start, end, cs) ==
    <<"deq-tanks update 2026-01-01",
      "====================",
      "",
      "Start time: 08:00:0" \o Text(IntToStr(start)),
      "End time: 08:00:0" \o Text(IntToStr(end)),
      "Duration: 0:00:0" \o Text(IntToStr(end - start)),
      "">> \o [d \in 1..NumDatasets |-> CountRow(d, cs[d])]

\* MessageDetails of the summary
SummaryMessage(start, end, cs) ==
    [subject |-> "deq-tanks Update Summary",
     message |-> SummaryRows(start, end, cs),
     attachments |-> "log.txt"]

\* Supervisor(handle_errors=False), line 126: the supervisor installs no
\* handler for exceptions nobody caught
handle_errors == FALSE

\* an exception leaves update, which process() called last: a supervisor
\* that handles errors would send it as a notification
Uncaught(sent, e) ==
    IF handle_errors
    THEN Append(sent, [via |-> "notify",
                       details |-> [subject |-> "ERROR",
                                    message |-> <<e.exc, e.msg>>,
                                    attachments |-> "log.txt"]])
    ELSE sent

InitUpdate ==
    /\ update_pc = "get"
    /\ dataset = 1
    /\ frames = <<>>
    /\ counts = <<>>
    /\ services = [d \in 1..NumDatasets |-> Old]
    /\ messages = <<>>
    /\ update_error = NoError
    /\ IS_LOCAL_DEV \in BOOLEAN
    /\ fc_args = <<>> /\ fc_result = Pending
    /\ fl_args = <<>> /\ fl_result = Pending
    /\ ci_arg = None /\ ci_result = Pending
    /\ earlier = NoRun
    /\ field_configs = <<>>
    /\ where_clause = None
    /\ salesforce_api = <<>>
    /\ raw = [cols |-> <<>>, rows |-> <<>>]
    /\ query = <<>>
    /\ df = [cols |-> <<>>, rows |-> <<>>]
    /\ fields_to_drop = <<>>
    /\ idx = 0
    /\ pc = "idle"
    /\ error = NoError

extractVars == <<fc_args, fc_result, fl_args, fl_result, ci_arg, ci_result,
                 earlier, field_configs, where_clause, salesforce_api, raw,
                 query, df, fields_to_drop, idx, pc, error>>

\* a get whose exception is swallowed: update goes on to load with an
\* empty table
GetDataset_LoadsAnyway ==
    /\ update_pc = "get"
    /\ \E got \in GetFrames(dataset) :
          IF got.raised
          THEN /\ update_error' = update_error
               /\ update_pc' = "load"
               /\ frames' = Append(frames, [cols |-> <<>>, rows |-> <<>>])
               /\ messages' = messages
          ELSE /\ update_error' = update_error
               /\ update_pc' = "load"
               /\ frames' = Append(frames, got.val)
               /\ messages' = messages
    /\ UNCHANGED <<extractVars, dataset, counts, services, IS_LOCAL_DEV>>
\* self._get_facilities(), self._get_releases(), ...: the table, or the
\* exception, which leaves update
GetDataset ==
    /\ update_pc = "get"
    /\ \E got \in GetFrames(dataset) :
          IF got.raised
          THEN /\ update_error' = got
               /\ update_pc' = "raised"
               /\ frames' = frames
               /\ messages' = Uncaught(messages, got)
          ELSE /\ update_error' = update_error
               /\ update_pc' = "load"
               /\ frames' = Append(frames, got.val)
               /\ messages' = messages
    /\ UNCHANGED <<extractVars, dataset, counts, services, IS_LOCAL_DEV>>

\* load.ServiceUpdater(...).truncate_and_load(frame): the service holds the
\* table and the number of its rows is returned
LoadReturns ==
    /\ update_pc = "load"
    /\ counts' = Append(counts, NumRows(frames[dataset]))
    /\ services' = [services EXCEPT ![dataset] = Loaded(frames[dataset])]
    /\ dataset' = dataset + 1
    /\ update_pc' = IF dataset = NumDatasets THEN "summarize" ELSE "get"
    /\ UNCHANGED <<extractVars, frames, messages, update_error, IS_LOCAL_DEV>>

\* a load failure that is isolated: update goes on with the next dataset
LoadRaises_GoesOn ==
    /\ update_pc = "load"
    /\ \E left \in {Old, Truncated} :
          services' = [services EXCEPT ![dataset] = left]
    /\ update_error' = Raise("RuntimeError", "Failed to load")
    /\ counts' = Append(counts, 0)
    /\ dataset' = dataset + 1
    /\ update_pc' = IF dataset = NumDatasets THEN "summarize" ELSE "get"
    /\ messages' = messages
    /\ UNCHANGED <<extractVars, frames, IS_LOCAL_DEV>>
\* truncate_and_load raises: the service is left with its old data or
\* without data, and the exception leaves update
LoadRaises ==
    /\ update_pc = "load"
    /\ \E left \in {Old, Truncated} :
          services' = [services EXCEPT ![dataset] = left]
    /\ update_error' = Raise("RuntimeError", "Failed to load")
    /\ update_pc' = "raised"
    /\ messages' = Uncaught(messages, Raise("RuntimeError", "Failed to load"))
    /\ UNCHANGED <<extractVars, dataset, frames, counts, IS_LOCAL_DEV>>

\* lines 336-362: the summary is printed or handed to the supervisor and
\* update returns
Summarize ==
    /\ update_pc = "summarize"
    /\ \E start \in Clock : \E end \in Clock :
          /\ start <= end
          /\ messages' =
                Append(messages,
                       [via |-> IF IS_LOCAL_DEV THEN "print" ELSE "notify",
                        details |-> SummaryMessage(start, end, counts)])
    /\ update_pc' = "returned"
    /\ UNCHANGED <<extractVars, dataset, frames, counts, services, update_error,
                   IS_LOCAL_DEV>>

NextUpdate ==
    \/ GetDataset
    \/ LoadReturns
    \/ LoadRaises
    \/ Summarize

SpecUpdate == InitUpdate /\ [][NextUpdate]_vars


\* what the stepwise run of the method leaves agrees with the method as one
\* call
ExtractAgrees ==
    Ended => Ran(df, error) = extract_data_from_salesforce(raw, field_configs)

-----------------------------------------------------------------------------
(* Properties of Skid.update *)

\* an exception left update
Aborted == update_error.raised

\* the table of dataset d was extracted and transformed without error
GetCompleted(d) == d <= Len(frames)

\* the get of dataset d raised
GetRaised(d) == Aborted /\ dataset = d /\ Len(frames) = d - 1

\* truncate_and_load was called for dataset d: it returned, or it raised
LoadInvoked(d) ==
    \/ d <= Len(counts)
    \/ Aborted /\ dataset = d /\ Len(frames) = d

\* the tables a completed extraction and transformation of dataset d yields
CompleteFrames(d) == {got.val : got \in {g \in GetFrames(d) : ~g.raised}}

\* C17, in every state: truncate_and_load is called for a dataset only when
\* its get has returned a completely transformed table, and what a service
\* was loaded with is that table; when the get of a dataset raised (flatten
\* met a value that is no mapping or lacks the child), truncate_and_load was
\* not called for it and its service holds the data of before the run.
C17_LoadState ==
    \A d \in 1..NumDatasets :
        /\ LoadInvoked(d) => /\ GetCompleted(d)
                             /\ frames[d] \in CompleteFrames(d)
        /\ services[d] \in {Old, Truncated}
              \/ /\ GetCompleted(d)
                 /\ services[d] = Loaded(frames[d])
                 /\ frames[d] \in CompleteFrames(d)
        /\ GetRaised(d) => /\ ~LoadInvoked(d)
                           /\ services[d] = Old

\* C17, in every step: a service changes only in the load step of its own
\* dataset, which follows the get of that dataset.
C17_LoadStep ==
    \A d \in 1..NumDatasets :
        services'[d] # services[d] =>
            /\ update_pc = "load"
            /\ dataset = d
            /\ GetCompleted(d)

\* C17: in update a dataset is loaded only after its extraction and
\* transformation completed without error; when they raise, the loader is
\* not called for that dataset and no partly transformed table is loaded.
C17_LoadOnlyAfterCompleteGet == [](C17_LoadState) /\ [][C17_LoadStep]_vars

\* C17 witness: the compartments' flatten met a value that is no mapping,
\* after three datasets were loaded; the compartments service was not
\* touched
C17_Witness ==
    /\ GetRaised(4)
    /\ update_error = Raise("ValueError", "Expected a dictionary, got <class 'str'>")
    /\ \A d \in 1..3 : services[d] = Loaded(frames[d])
    /\ Len(frames[4 - 1].rows) = 1
    /\ services[4] = Old
    /\ ~LoadInvoked(4)


\* the dataset whose get or load raised
FailedAt == dataset

\* C18, in every state: the datasets are worked on in the order facilities,
\* releases, tanks, compartments; once the get or the load of dataset k has
\* raised, update is left, nothing was extracted or loaded for a dataset
\* after k, and every dataset before k is truncated and reloaded.
C18_OrderState ==
    /\ Len(frames) \in {dataset - 1, dataset} \cap 0..NumDatasets
    /\ Len(counts) = IF update_pc \in {"summarize", "returned"}
                     THEN NumDatasets ELSE dataset - 1
    /\ \A d \in 1..NumDatasets :
          d > dataset => services[d] = Old
    /\ \A d \in 1..NumDatasets :
          (d < dataset /\ d <= NumDatasets) =>
              /\ services[d] = Loaded(frames[d])
              /\ counts[d] = NumRows(frames[d])
    /\ Aborted =>
          /\ update_pc = "raised"
          /\ FailedAt \in 1..NumDatasets
          /\ \A d \in 1..NumDatasets :
                d > FailedAt => /\ ~GetCompleted(d)
                                /\ ~LoadInvoked(d)
                                /\ services[d] = Old
          /\ \A d \in 1..NumDatasets :
                d < FailedAt => services[d] = Loaded(frames[d])

\* C18, in every step: after an exception left update no step follows, and
\* a service that was reloaded is not changed again.
C18_OrderStep ==
    /\ ~Aborted
    /\ \A d \in 1..NumDatasets :
          services[d].state = "loaded" => services'[d] = services[d]

\* C18: update works on the datasets strictly in order without isolating
\* failures: a failure at dataset k ends the run with the datasets before k
\* reloaded and those after k neither extracted nor loaded.
C18_InOrderNoIsolation == [](C18_OrderState) /\ [][C18_OrderStep]_vars

\* C18 witness: the releases' flatten raised after the facilities were
\* reloaded; tanks and compartments stay as they were
C18_Witness ==
    /\ GetRaised(2)
    /\ update_pc = "raised"
    /\ services[1] = Loaded(frames[1])
    /\ Len(frames[1].rows) = 1
    /\ services[2] = Old
    /\ services[3] = Old
    /\ services[4] = Old

\* a message that carries the error
CarriesError(m) ==
    \E k \in 1..Len(m.details.message) : m.details.message[k] = update_error.msg

\* C19: whenever the get or the load of a dataset raised inside update, the
\* run has ended with a summary or notification that carries the error.
C19_FailedRunNotifies ==
    Aborted => \E k \in 1..Len(messages) : CarriesError(messages[k])

\* the summary went out and update returned
Returned == update_pc = "returned"

\* C20: a run in which all four datasets were loaded emits the summary
\* once, after the compartments load returned and not before; its four
\* count rows carry, each under its own dataset title, the numbers the
\* loads of this run returned.
C20_SummaryOnceWithCounts ==
    /\ messages # <<>> => Returned
    /\ Returned =>
          /\ Len(messages) = 1
          /\ Len(counts) = NumDatasets
          /\ services[NumDatasets] = Loaded(frames[NumDatasets])
          /\ Len(messages[1].details.message) = 7 + NumDatasets
          /\ \A d \in 1..NumDatasets :
                /\ counts[d] = NumRows(services[d].table)
                /\ messages[1].details.message[7 + d] =
                       TitleOf(d) \o " rows loaded: " \o Text(IntToStr(counts[d]))
    /\ (update_pc = "summarize") => messages = <<>>

\* C20 witness: a run loaded one row of facilities and of tanks and none of
\* the other two, and its summary says so
C20_Witness ==
    /\ Returned
    /\ counts = <<1, 0, 1, 0>>
    /\ ~IS_LOCAL_DEV
    /\ messages[1].via = "notify"
    /\ messages[1].details.message[8] =
           "Utah Petroleum Storage Tanks Facilities rows loaded: 1"
    /\ messages[1].details.message[9] =
           "Utah Petroleum Storage Tank Releases rows loaded: 0"
    /\ messages[1].details.message[10] =
           "Utah Petroleum Storage Tanks rows loaded: 1"
    /\ messages[1].details.message[11] =
           "Utah Petroleum Storage Tank Compartments rows loaded: 0"

-----------------------------------------------------------------------------
(* Flattened descriptors whose source name has more than one separator      *)

C_G == <<"G">>
K_P == <<"P">>
S_GPC == <<"G", ".", "P", ".", "C">>

\* FieldConfig("g", "G.P.C", "g", FieldConfig.text, flatten=True) and its
\* date-kind twin: the constructor accepts both
FC_deep_text == Descriptor(<<"g">>, PyStr(S_GPC), text, None, None, TRUE)
FC_deep_date == Descriptor(<<"h">>, PyStr(S_GPC), date, None, None, TRUE)

NestedPool == {FC_deep_text, FC_deep_date, FC_flat_text, FC_flat_date}

NestedSets ==
    {q \in SeqsUpTo(NestedPool, MaxFields) :
        q # <<>> /\ \A a, b \in 1..Len(q) : a # b => q[a] # q[b]}

\* what the extractor may return in the column G of a query for G.P.C
NestedCells ==
    {None,
     PyDict(<<<<K_P, PyDict(<<<<K_C, PyStr(S_year)>>>>)>>>>),
     PyDict(<<<<K_P, None>>>>),
     PyDict(<<<<K_C, PyStr(S_year)>>>>)}

NestedRows(colSet) ==
    {[c \in colSet |-> CASE c = C_G -> g [] c = C_P -> p
                         [] OTHER -> CHOOSE x \in CellsOf(c) : TRUE] :
        g \in NestedCells, p \in CellsOf(C_P)}

NestedTables(configs) ==
    {[cols |-> <<S_attributes>> \o SourceColumns(configs, {}), rows |-> rows] :
        rows \in SeqsUpTo(NestedRows({S_attributes}
                     \cup {SourceColumns(configs, {})[k] :
                              k \in 1..Len(SourceColumns(configs, {}))}),
                          MaxRows)}

InitNested ==
    /\ field_configs \in NestedSets
    /\ where_clause = PyStr(<<"W">>)
    /\ salesforce_api = <<"T">>
    /\ raw \in NestedTables(field_configs)
    /\ query = <<>>
    /\ df = [cols |-> <<>>, rows |-> <<>>]
    /\ fields_to_drop = <<>>
    /\ idx = 0
    /\ pc = "start"
    /\ error = NoError
    /\ earlier = NoRun
    /\ UpdateIdle
    /\ fc_args = <<>> /\ fc_result = Pending
    /\ fl_args = <<>> /\ fl_result = Pending
    /\ ci_arg = None /\ ci_result = Pending

SpecNested == InitNested /\ [][Next]_vars

\* x is a chain of mappings that holds every key of the path in turn
RECURSIVE Reaches(_, _)
Reaches(x, keys) ==
    \/ keys = <<>>
    \/ /\ IsDict(x)
       /\ HasKey(x, Head(keys))
       /\ Reaches(GetItem(x, Head(keys)), Tail(keys))

\* the value at the end of that chain
RECURSIVE Lookup(_, _)
Lookup(x, keys) ==
    IF keys = <<>> THEN x ELSE Lookup(GetItem(x, Head(keys)), Tail(keys))

\* descriptor k has been derived and its column not yet retyped
Derived(k) == (InLoop /\ idx > k) \/ pc = "dropped"

\* the cell a kind makes of a source value inside the loop
KindCell(kind, v) ==
    CASE kind = text -> PyStr(Str(v))
      [] kind = integer -> convert_to_int(v).val
      [] OTHER -> v

\* C21: for every flattened descriptor the constructor accepts, also one
\* whose source name has more than one separator (G.P.C), the derived cell
\* of a row is made of the value under the last segment of the source name
\* inside the mapping found at the path before it.
C21_ChildUnderParentPath ==
    \A k \in 1..NumFields : \A r \in 1..NumRows(raw) :
        (/\ field_configs[k].flatten
         /\ Derived(k)
         /\ Reaches(raw.rows[r][Split(field_configs[k].sf_field.v, ".")[1]],
                    Tail(Split(field_configs[k].sf_field.v, "."))))
        => df.rows[r][field_configs[k].agol_field.v]
             = KindCell(field_configs[k].field_type,
                        Lookup(raw.rows[r][Split(field_configs[k].sf_field.v, ".")[1]],
                               Tail(Split(field_configs[k].sf_field.v, "."))))

-----------------------------------------------------------------------------
(* Composite descriptors and the order of the descriptors                   *)

\* composite descriptors that name the output column of another descriptor:
\* of the static one, of the flattened text one, of the integer one and of
\* the first of these composites
FC_uses_static ==
    Descriptor(<<"u">>, None, composite, None, PyStr(<<"{", "s", "}">>), FALSE)
FC_uses_flat ==
    Descriptor(<<"w">>, None, composite, None, PyStr(<<"{", "m", "}", "!">>), FALSE)
FC_uses_integer ==
    Descriptor(<<"z">>, None, composite, None, PyStr(<<"#", "{", "n", "}">>), FALSE)
FC_uses_composite ==
    Descriptor(<<"y">>, None, composite, None, PyStr(<<"{", "u", "}">>), FALSE)

OrderPool == {FC_static, FC_flat_text, FC_integer, FC_uses_static, FC_uses_flat,
              FC_uses_integer, FC_uses_composite}

OrderSets ==
    {q \in SeqsUpTo(OrderPool, MaxFields) :
        q # <<>> /\ \A a, b \in 1..Len(q) : a # b => q[a] # q[b]}

InitOrder ==
    /\ field_configs \in OrderSets
    /\ where_clause = PyStr(<<"W">>)
    /\ salesforce_api = <<"T">>
    /\ raw \in RawTables(field_configs)
    /\ query = <<>>
    /\ df = [cols |-> <<>>, rows |-> <<>>]
    /\ fields_to_drop = <<>>
    /\ idx = 0
    /\ pc = "start"
    /\ error = NoError
    /\ earlier = NoRun
    /\ UpdateIdle
    /\ fc_args = <<>> /\ fc_result = Pending
    /\ fl_args = <<>> /\ fl_result = Pending
    /\ ci_arg = None /\ ci_result = Pending

SpecOrder == InitOrder /\ [][Next]_vars

\* the names a template refers to
RECURSIVE RefsOf(_)
RefsOf(template) ==
    IF template = <<>> THEN {}
    ELSE IF Head(template) # "{" THEN RefsOf(Tail(template))
    ELSE {SubSeq(template, 2, CloseOf(template) - 1)}
         \cup RefsOf(SubSeq(template, CloseOf(template) + 1, Len(template)))

\* the loop is about to process a composite descriptor
AtComposite ==
    /\ InLoop
    /\ idx <= NumFields
    /\ field_configs[idx].field_type = composite

\* descriptor j adds its output column in its own pass of the loop
Creates(j) ==
    \/ field_configs[j].flatten
    \/ field_configs[j].field_type \in {static, composite}

\* the names descriptor i refers to that a later descriptor creates
LaterCreated(i) ==
    {n \in RefsOf(field_configs[i].composite_format.v) :
        \E j \in (i + 1)..NumFields :
            field_configs[j].agol_field.v = n /\ Creates(j)}

\* every name descriptor i refers to is the output of an earlier descriptor
RefersToEarlier(i) ==
    /\ RefsOf(field_configs[i].composite_format.v) # {}
    /\ \A n \in RefsOf(field_configs[i].composite_format.v) :
           \E j \in 1..(i - 1) : field_configs[j].agol_field.v = n

DescriptorNamed(n) ==
    field_configs[CHOOSE j \in 1..NumFields : field_configs[j].agol_field.v = n]

\* the derived value of a descriptor in row r, from the raw table
RECURSIVE ExpectedCell(_, _)
ExpectedCell(fc, r) ==
    CASE fc.field_type = static -> fc.static_value
      [] fc.field_type = composite ->
           PyStr(Format(fc.composite_format.v,
                        [n \in RefsOf(fc.composite_format.v) |->
                            ExpectedCell(DescriptorNamed(n), r)]).val)
      [] OTHER -> DerivedCell(fc, r)

\* C22, every pass of the loop over a composite descriptor at position i:
\* when all the names it refers to are outputs of descriptors before i, the
\* pass succeeds and each cell is the template filled with the derived
\* values of those descriptors; when it refers to the output of a static,
\* flattened or composite descriptor after i, the pass raises KeyError for a
\* column that does not exist yet and the run fails.
C22_CompositeStep ==
    AtComposite =>
        /\ RefersToEarlier(idx) =>
             /\ pc' = "loop"
             /\ idx' = idx + 1
             /\ \A r \in 1..NumRows(raw) :
                    df'.rows[r][field_configs[idx].agol_field.v]
                        = ExpectedCell(field_configs[idx], r)
        /\ LaterCreated(idx) # {} =>
             /\ pc' = "failed"
             /\ \E n \in LaterCreated(idx) :
                    /\ ~HasCol(df, n)
                    /\ error' = Raise("KeyError", Text(n))

FailedOnLaterColumn ==
    /\ Failed
    /\ idx = 1
    /\ field_configs = <<FC_uses_static, FC_static>>
    /\ error = Raise("KeyError", "s")

-----------------------------------------------------------------------------
(* Skid._get_facilities (main.py) and its callers                           *)

MaxFacilities == 2

S_Id == <<"I", "d">>
S_UTMNorthing == <<"U", "T", "M", "N", "o", "r", "t", "h", "i", "n", "g">>
S_UTMEasting == <<"U", "T", "M", "E", "a", "s", "t", "i", "n", "g">>
S_FACILITYID == <<"F", "A", "C", "I", "L", "I", "T", "Y", "I", "D">>
S_NORTHING == <<"N", "O", "R", "T", "H", "I", "N", "G">>
S_EASTING == <<"E", "A", "S", "T", "I", "N", "G">>
S_SHAPE == <<"S", "H", "A", "P", "E">>

\* config.FACILITIES_FIELDS: the identifier and the two coordinate fields
FACILITIES_FIELDS ==
    <<Descriptor(S_FACILITYID, PyStr(S_Id), text, None, None, FALSE),
      Descriptor(S_NORTHING, PyStr(S_UTMNorthing), integer, None, None, FALSE),
      Descriptor(S_EASTING, PyStr(S_UTMEasting), integer, None, None, FALSE)>>

\* the coordinates a facility record may carry: null, text that is no
\* number, values on the bounds of the filter and values inside them, as
\* text or as numbers
NorthingCells ==
    {None, PyStr(<<"a", "b">>), PyStr(NatToStr(4000000)), PyInt(4000001),
     PyStr(NatToStr(4799999)), PyStr(NatToStr(4800000))}
EastingCells ==
    {None, PyStr(<<>>), PyStr(NatToStr(150000)), PyStr(NatToStr(150001)),
     PyInt(749999), PyInt(750000)}
FacilityCoordinates ==
    (NorthingCells \X {PyInt(749999)})
        \cup ({PyInt(4000001)} \X EastingCells)
        \cup {<<None, None>>, <<PyStr(NatToStr(4800000)), PyInt(750000)>>}

\* record k of the answer: its Id is the numeral of k
FacilityRecord(k, pair) ==
    [c \in {S_Id, S_UTMNorthing, S_UTMEasting} |->
        CASE c = S_Id -> PyStr(NatToStr(k))
          [] c = S_UTMNorthing -> pair[1]
          [] c = S_UTMEasting -> pair[2]]

\* what get_records("services/apexrest/facilities", "") may return: up to
\* MaxFacilities records, or one record without the easting
FacilityTables ==
    {[cols |-> <<S_Id, S_UTMNorthing, S_UTMEasting>>,
      rows |-> [k \in 1..Len(q) |-> FacilityRecord(k, q[k])]] :
        q \in SeqsUpTo(FacilityCoordinates, MaxFacilities)}
      \cup {[cols |-> <<S_Id, S_UTMNorthing>>,
             rows |-> <<[c \in {S_Id, S_UTMNorthing} |->
                           IF c = S_Id THEN PyStr(<<"1">>) ELSE PyInt(4000001)]>>]}

\* step 4 of the transformer: the table projected to the output names, in
\* descriptor order
Reorder(ran, names) ==
    IF ran.err.raised THEN ran
    ELSE IF ~({names[k] : k \in 1..Len(names)} \subseteq ColSet(ran.df))
    THEN Ran(ran.df, Raise("KeyError", "not in index"))
    ELSE Ran([cols |-> names,
              rows |-> [r \in 1..NumRows(ran.df) |->
                           [c \in {names[k] : k \in 1..Len(names)} |->
                               ran.df.rows[r][c]]]],
             NoError)

\* helpers.apply_field_mappings_and_transformations(dataframe, field_configs):
\* rename, derive in descriptor order, drop the parents, reorder
apply_field_mappings_and_transformations(t, configs) ==
    Reorder(AfterLoop(LoopFrom(Step(RenameColumns(t, field_mappings(configs)),
                                    <<>>, NoError),
                               configs, 1)),
            [k \in 1..Len(configs) |-> configs[k].agol_field.v])

\* a comparison of the query: a null is not greater or less than a number
Greater(x, n) == IsInt(x) /\ x.v > n
Less(x, n) == IsInt(x) /\ x.v < n

\* the filter with its four bounds included
InUtah_BoundsIncluded(row) ==
    /\ Greater(row[S_NORTHING], 4000000 - 1)
    /\ Less(row[S_NORTHING], 4800000 + 1)
    /\ Greater(row[S_EASTING], 150000 - 1)
    /\ Less(row[S_EASTING], 750000 + 1)
\* "NORTHING > 4000000 & NORTHING < 4800000 & EASTING > 150000 & EASTING < 750000"
InUtah(row) ==
    /\ Greater(row[S_NORTHING], 4000000)
    /\ Less(row[S_NORTHING], 4800000)
    /\ Greater(row[S_EASTING], 150000)
    /\ Less(row[S_EASTING], 750000)

\* "NORTHING > 0 & EASTING > 0"
Positive(row) == Greater(row[S_NORTHING], 0) /\ Greater(row[S_EASTING], 0)

\* the rows a boolean mask selects, in order
RECURSIVE Masked(_, _)
Masked(rows, mask) ==
    IF rows = <<>> THEN <<>>
    ELSE (IF Head(mask) THEN <<Head(rows)>> ELSE <<>>)
         \o Masked(Tail(rows), Tail(mask))

\* dataframe.query(...): the expression gives a mask over the rows, the
\* rows it is true of are kept
Query(t, mask) == [cols |-> t.cols, rows |-> Masked(t.rows, mask)]

\* some row has a null coordinate
HasNullCoordinate(t) ==
    \E r \in 1..NumRows(t) :
        IsNone(t.rows[r][S_NORTHING]) \/ IsNone(t.rows[r][S_EASTING])

\* a point of a spatial reference; a projected point is known by the
\* reference it is in and the point it was projected from
Point(sr, x, y) == [t |-> "point", sr |-> sr, x |-> x, y |-> y]
Projected(sr, p) == [t |-> "point", sr |-> sr, from |-> p]

\* GeoAccessor.from_xy(dataframe, "EASTING", "NORTHING", sr=26912)
from_xy(t) ==
    SetColumn(t, S_SHAPE,
              [r \in 1..NumRows(t) |->
                  Point(26912, t.rows[r][S_EASTING].v, t.rows[r][S_NORTHING].v)])

\* sdf.spatial.project(web_mercator, ...): the shapes move, the other
\* columns stay
project(t) ==
    SetColumn(t, S_SHAPE,
              [r \in 1..NumRows(t) |-> Projected(3857, t.rows[r][S_SHAPE])])

Published(t) == [state |-> "published", table |-> t]

InitFacilities ==
    /\ raw \in FacilityTables
    /\ df = [cols |-> <<>>, rows |-> <<>>]
    /\ pc = "idle"
    /\ error = NoError
    /\ frames = <<>>
    /\ services = [d \in 1..NumDatasets |-> Old]
    /\ update_pc = "get"
    /\ dataset = 1
    /\ counts = <<>>
    /\ messages = <<>>
    /\ update_error = NoError
    /\ IS_LOCAL_DEV = FALSE
    /\ fc_args = <<>> /\ fc_result = Pending
    /\ fl_args = <<>> /\ fl_result = Pending
    /\ ci_arg = None /\ ci_result = Pending
    /\ earlier = NoRun
    /\ field_configs = <<>>
    /\ where_clause = None
    /\ salesforce_api = <<>>
    /\ query = <<>>
    /\ fields_to_drop = <<>>
    /\ idx = 0

facilityRest == <<fc_args, fc_result, fl_args, fl_result, ci_arg, ci_result,
                  field_configs, where_clause, salesforce_api, raw, query,
                  fields_to_drop, idx, earlier, update_pc, dataset, messages,
                  update_error, IS_LOCAL_DEV>>

\* lines 152-155: the records of the facilities endpoint
GetFacilityRecords ==
    /\ pc = "idle"
    /\ df' = raw
    /\ pc' = "records"
    /\ UNCHANGED <<facilityRest, error, frames, services, counts>>

\* lines 156-159
ApplyMappings ==
    /\ pc = "records"
    /\ df' = apply_field_mappings_and_transformations(df, FACILITIES_FIELDS).df
    /\ error' = apply_field_mappings_and_transformations(df, FACILITIES_FIELDS).err
    /\ pc' = IF error'.raised THEN "failed" ELSE "mapped"
    /\ UNCHANGED <<facilityRest, frames, services, counts>>

\* line 162: the rows with coordinates inside the bounds are kept.  A null
\* coordinate selects nothing when the column is of a nullable integer
\* type and makes the comparison raise when it is a column of objects.
FilterCoordinates ==
    /\ pc = "mapped"
    /\ \/ /\ df' = Query(df, [r \in 1..NumRows(df) |-> InUtah(df.rows[r])])
          /\ pc' = "filtered"
          /\ error' = error
       \/ /\ HasNullCoordinate(df)
          /\ df' = df
          /\ pc' = "failed"
          /\ error' = Raise("TypeError", "'>' not supported between instances "
                                \o "of 'NoneType' and 'int'")
    /\ UNCHANGED <<facilityRest, frames, services, counts>>

\* lines 164-170: the spatial table, projected to web mercator
MakeSpatial ==
    /\ pc = "filtered"
    /\ df' = project(from_xy(df))
    /\ pc' = "projected"
    /\ UNCHANGED <<facilityRest, error, frames, services, counts>>

\* lines 172-174: the second filter; the caller has the table
ReturnFacilities ==
    /\ pc = "projected"
    /\ df' = Query(df, [r \in 1..NumRows(df) |-> Positive(df.rows[r])])
    /\ frames' = <<df'>>
    /\ pc' = "returned"
    /\ UNCHANGED <<facilityRest, error, services, counts>>

\* update, lines 298-304: facilities_loader.truncate_and_load(facilities_sdf)
LoadFacilities ==
    /\ pc = "returned"
    /\ services' = [services EXCEPT ![1] = Loaded(frames[1])]
    /\ counts' = <<NumRows(frames[1])>>
    /\ pc' = "handed"
    /\ UNCHANGED <<facilityRest, df, error, frames>>

\* publish, lines 370-377: self._publish_dataset(..., facilities_sdf, "layer")
PublishFacilities ==
    /\ pc = "returned"
    /\ services' = [services EXCEPT ![1] = Published(frames[1])]
    /\ pc' = "handed"
    /\ UNCHANGED <<facilityRest, df, error, frames, counts>>

NextFacilities ==
    \/ GetFacilityRecords
    \/ ApplyMappings
    \/ FilterCoordinates
    \/ MakeSpatial
    \/ ReturnFacilities
    \/ LoadFacilities
    \/ PublishFacilities

SpecFacilities == InitFacilities /\ [][NextFacilities]_vars

-----------------------------------------------------------------------------
(* Properties of Skid._get_facilities *)

\* the tables the loader or the publisher was handed
Handed ==
    IF services[1] \in {Old, Truncated} THEN {} ELSE {services[1].table}

\* the integer a raw coordinate stands for lies strictly inside the bounds
Inside(x, low, high) ==
    /\ ~IsNone(x)
    /\ convert_to_int(x).val # PyInt(-1)
    /\ convert_to_int(x).val.v > low
    /\ convert_to_int(x).val.v < high

\* the facility of a raw record is in the table
Holds(t, rec) ==
    \E r \in 1..NumRows(t) : t.rows[r][S_FACILITYID] = PyStr(Str(rec[S_Id]))

\* C23: every row handed to the loader or the publisher has NORTHING
\* strictly between 4000000 and 4800000 and EASTING strictly between 150000
\* and 750000; a facility whose coordinate is null, is the marker -1 of a
\* text that is no integer, or lies on one of the four bounds is in no
\* table handed over.
C23_HandedFacilitiesInsideBounds ==
    \A t \in Handed :
        /\ \A r \in 1..NumRows(t) :
               /\ IsInt(t.rows[r][S_NORTHING])
               /\ t.rows[r][S_NORTHING].v > 4000000
               /\ t.rows[r][S_NORTHING].v < 4800000
               /\ IsInt(t.rows[r][S_EASTING])
               /\ t.rows[r][S_EASTING].v > 150000
               /\ t.rows[r][S_EASTING].v < 750000
        /\ \A k \in 1..NumRows(raw) :
               Holds(t, raw.rows[k])
                   => /\ Inside(raw.rows[k][S_UTMNorthing], 4000000, 4800000)
                      /\ Inside(raw.rows[k][S_UTMEasting], 150000, 750000)

\* of two facilities the loader got the one inside the bounds and not the
\* one whose northing is on the upper bound
C23_Witness ==
    /\ services[1] = Loaded(df)
    /\ NumRows(raw) = 2
    /\ raw.rows[1][S_UTMNorthing] = PyStr(NatToStr(4800000))
    /\ NumRows(df) = 1
    /\ Holds(df, raw.rows[2])
    /\ ~Holds(df, raw.rows[1])

====
